---- MODULE Spec2Model ----
(***************************************************************************)
(* State-machine model of the AbMelt inference pipeline:                   *)
(*   - the model inference dispatcher (src/model_inference.py),            *)
(*   - the staged orchestrator (infer.py) with its loaders and executors.  *)
(***************************************************************************)
EXTENDS Integers, Sequences, FiniteSets, TLC

(***************************************************************************)
(* Shared vocabulary                                                       *)
(***************************************************************************)

\* The three registered models, in the order predict_all iterates over them.
ModelNames == <<"tagg", "tm", "tmon">>

ModelSet == {ModelNames[i] : i \in 1..Len(ModelNames)}

\* Required, ordered feature names of each model.
ModelFeatures(m) ==
    CASE m = "tagg" -> <<"rmsf_cdrs_mu_400",
                         "gyr_cdrs_Rg_std_400",
                         "all-temp_lamda_b=25_eq=20">>
      [] m = "tm"   -> <<"gyr_cdrs_Rg_std_350",
                         "bonds_contacts_std_350",
                         "rmsf_cdrl1_std_350">>
      [] m = "tmon" -> <<"bonds_contacts_std_350",
                         "all-temp-sasa_core_mean_k=20_eq=20",
                         "all-temp-sasa_core_std_k=20_eq=20",
                         "r-lamda_b=2.5_eq=20">>

Range(s) == {s[i] : i \in 1..Len(s)}

\* Every column name a descriptors table of the model can hold; a table is
\* [cols |-> the set of its column names, row |-> its one row, a function
\* from the column names to their values].
FeatureNames == UNION {Range(ModelFeatures(m)) : m \in ModelSet}

\* Values a present column holds (one row, one scalar per column).
Values == {1, 2}

\* The unavailable marker (Python None).
None == [tag |-> "None"]

\* No predictions dictionary (predict_all not called, or it did not return).
NoCall == [tag |-> "no call"]

\* A numpy array of predictions.
NdArray(data) == [tag |-> "ndarray", data |-> data]

\* A floating point scalar, and the not-a-number scalar.
Float(n) == [tag |-> "float", v |-> n]

NaN == [tag |-> "nan"]

\* What a predictor artifact on disk can be: loadable and usable, not there,
\* there but not loadable (joblib.load raises), or loadable with a predict
\* that raises.
ArtifactStates == {"ok", "missing", "corrupt", "incompatible"}

(***************************************************************************)
(* AbMeltPredictor: pure parts                                             *)
(***************************************************************************)

\* _validate_models: the names of the models whose artifact does not exist.
MissingModels(artifacts) == {m \in ModelSet : artifacts[m] = "missing"}

\* AbMeltPredictor.__init__: TRUE when construction returns, FALSE when
\* _validate_models raises FileNotFoundError.
ConstructOk(artifacts) == MissingModels(artifacts) = {}

\* load_model: [ok, loaded]; the cache is consulted before the disk.
LoadModel(m, artifacts, loaded) ==
    IF m \in loaded THEN [ok |-> TRUE, loaded |-> loaded]
    ELSE IF artifacts[m] \in {"ok", "incompatible"}
         THEN [ok |-> TRUE, loaded |-> loaded \cup {m}]
         ELSE [ok |-> FALSE, loaded |-> loaded]

\* extract_features, first half: the required features the table lacks.
MissingFeatures(df, m) ==
    {f \in Range(ModelFeatures(m)) : f \notin df.cols}

\* The whole table handed to the predictor instead of the required columns.
ExtractWholeTable(df, m) ==
    LET cols == ModelFeatures("tagg") \o ModelFeatures("tm") \o ModelFeatures("tmon")
    IN [i \in 1..Len(cols) |-> IF cols[i] \in df.cols THEN df.row[cols[i]] ELSE 0]

\* extract_features, second half: the required columns in declared order.
ExtractFeatures(df, m) ==
    [i \in 1..Len(ModelFeatures(m)) |-> df.row[ModelFeatures(m)[i]]]

RECURSIVE Encode(_)
\* The trained predictor is an opaque deterministic function of the row it
\* is given; the model keeps it injective in that row.
Encode(X) ==
    IF Len(X) = 0 THEN 0
    ELSE X[1] + 3 * Encode(Tail(X))

ModelPredict(m, X) == NdArray(<<Float(Encode(X))>>)

\* predict: [ok, value, loaded]; raises (ok = FALSE) when the model cannot be
\* loaded, a required feature is missing, or the predictor itself raises.
Predict(df, m, artifacts, loaded) ==
    LET l == LoadModel(m, artifacts, loaded) IN
    IF ~l.ok THEN [ok |-> FALSE, value |-> None, loaded |-> l.loaded]
    ELSE IF MissingFeatures(df, m) # {}
         THEN [ok |-> FALSE, value |-> None, loaded |-> l.loaded]
    ELSE IF artifacts[m] = "incompatible"
         THEN [ok |-> FALSE, value |-> None, loaded |-> l.loaded]
    ELSE [ok |-> TRUE,
          value |-> ModelPredict(m, ExtractFeatures(df, m)),
          loaded |-> l.loaded]

\* predict_all without its try/except: the exception of one model leaves
\* predict_all.
PropagatePredictException(acc, m) == [raised |-> TRUE, predictions |-> acc]

\* predict_all, the except branch: the exception is logged and the failed
\* model is recorded as None.
OnPredictException(acc, m) == [raised |-> FALSE, predictions |-> acc @@ (m :> None)]

RECURSIVE PredictAllFrom(_, _, _, _, _)
\* predict_all, the loop from the i-th model on; acc is the predictions
\* dictionary built so far, loaded the cache of loaded models.
PredictAllFrom(i, df, artifacts, loaded, acc) ==
    IF i > Len(ModelNames)
    THEN [raised |-> FALSE, predictions |-> acc, loaded |-> loaded]
    ELSE LET m == ModelNames[i]
             r == Predict(df, m, artifacts, loaded)
             h == OnPredictException(acc, m)
         IN IF r.ok
            THEN PredictAllFrom(i + 1, df, artifacts, r.loaded, acc @@ (m :> r.value))
            ELSE IF h.raised
                 THEN [raised |-> TRUE, predictions |-> NoCall, loaded |-> r.loaded]
                 ELSE PredictAllFrom(i + 1, df, artifacts, r.loaded, h.predictions)

\* predict_all: [raised, predictions, loaded].
PredictAll(df, artifacts, loaded) ==
    PredictAllFrom(1, df, artifacts, loaded, << >>)

(***************************************************************************)
(* Files of a work directory, exceptions, stage results                    *)
(***************************************************************************)

NoFile == [tag |-> "no file"]

\* A file that exists and cannot be parsed (truncated by a failed write).
Garbage == [tag |-> "garbage"]

FileOf(content) == [tag |-> "file", content |-> content]

NoValue == [tag |-> "unset"]

NoError == [tag |-> "no error"]

\* An exception object; message is the text the raise site gives it, or
\* "<external>" when it comes out of an external tool or library.
Exc(type, message) == [tag |-> "exception", type |-> type, message |-> message]

\* What a stage function did: returned value, or raised exc; the process
\* working directory and the work directory's files it leaves behind.
Returned(value, cwd, disk) ==
    [ok |-> TRUE, value |-> value, exc |-> NoError, cwd |-> cwd, disk |-> disk]

Raised(exc, cwd, disk) ==
    [ok |-> FALSE, value |-> NoValue, exc |-> exc, cwd |-> cwd, disk |-> disk]

\* The four stages in pipeline order.
Stages == <<"structure", "simulation", "descriptors", "inference">>

StageSet == Range(Stages)

\* The directory the pipeline process is started in.
LaunchDir == "launch"

\* config["simulation"]["temperatures"], as the strings that key the
\* trajectory files of a simulation result.
Temperatures == <<"300", "350", "400">>

TemperatureSet == Range(Temperatures)

\* The files of one temperature that descriptor extraction requires:
\* md_final_<T>.xtc, md_final_<T>.gro, md_<T>.tpr.
TrajectoryFiles == {"xtc", "gro", "tpr"}

\* The trajectory files of a work directory: temperature -> files present.
CompleteTrajectories == [t \in TemperatureSet |-> TrajectoryFiles]

NoTrajectories == [t \in TemperatureSet |-> {}]

(***************************************************************************)
(* Stage 1: structure                                                      *)
(***************************************************************************)

\* validate_structure: False when the file cannot be parsed (chains = 0
\* here) or holds fewer than two chains.
validate_structure(chains) == chains >= 2

\* A validation that accepts any structure that can be parsed.
AcceptAnyParsedStructure(pdb_file, antibody_name, temp_dir, cwd, written, chains) ==
    IF chains < 1
    THEN Raised(Exc("Exception", "Structure validation failed"), cwd, written)
    ELSE Returned([pdb_file |-> <<temp_dir, antibody_name>>,
                   work_dir |-> temp_dir], cwd, written)

\* _preprocess_structure: the structure in the work directory is validated
\* and the structure result is built.
PreprocessStructure(pdb_file, antibody_name, temp_dir, cwd, written, chains) ==
    IF ~validate_structure(chains)
    THEN Raised(Exc("Exception", "Structure validation failed"), cwd, written)
    ELSE Returned([pdb_file |-> <<temp_dir, antibody_name>>,
                   work_dir |-> temp_dir], cwd, written)

\* _prepare_from_pdb.  antibody.keys: the keys of the antibody dictionary
\* besides name and type; antibody.pdb_exists: whether the file pdb_file
\* names exists.  env.tool: "ok" or "error" (the copy raises for another
\* reason); env.chains: the number of chains of the structure.
PrepareFromPdb(antibody, temp_dir, cwd, disk, env) ==
    IF "pdb_file" \notin antibody.keys
    THEN Raised(Exc("KeyError", "pdb_file"), cwd, disk)
    ELSE IF ~antibody.pdb_exists
    THEN Raised(Exc("FileNotFoundError", "<external>"), cwd, disk)
    ELSE IF env.tool = "error"
    THEN Raised(Exc("Exception", "<external>"), cwd, disk)
    ELSE PreprocessStructure(<<temp_dir, antibody.name>>, antibody.name, temp_dir, cwd,
                             [disk EXCEPT !.pdb = @ \cup {antibody.name}], env.chains)

\* _prepare_from_sequences.  env.tool: "ok" or "error" (immune_builder
\* raises); env.chains: the number of chains of the generated structure.
PrepareFromSequences(antibody, temp_dir, cwd, disk, env) ==
    IF "heavy_chain" \notin antibody.keys
    THEN Raised(Exc("KeyError", "heavy_chain"), cwd, disk)
    ELSE IF "light_chain" \notin antibody.keys
    THEN Raised(Exc("KeyError", "light_chain"), cwd, disk)
    ELSE IF env.tool = "error"
    THEN Raised(Exc("Exception", "<external>"), cwd, disk)
    ELSE PreprocessStructure(<<temp_dir, antibody.name>>, antibody.name, temp_dir, cwd,
                             [disk EXCEPT !.pdb = @ \cup {antibody.name}], env.chains)

\* prepare_structure: dispatch on the antibody's type.
prepare_structure(antibody, temp_dir, cwd, disk, env) ==
    IF antibody.type = "pdb"
    THEN PrepareFromPdb(antibody, temp_dir, cwd, disk, env)
    ELSE IF antibody.type = "sequences"
    THEN PrepareFromSequences(antibody, temp_dir, cwd, disk, env)
    ELSE Raised(Exc("ValueError", "Unsupported antibody type"), cwd, disk)

\* load_existing_structure_files: rebuilds the structure result from the pdb
\* file in the work directory; its absence is fatal.
load_existing_structure_files(antibody, temp_dir, cwd, disk) ==
    IF antibody.name \in disk.pdb
    THEN Returned([pdb_file |-> <<temp_dir, antibody.name>>,
                   work_dir |-> temp_dir], cwd, disk)
    ELSE Raised(Exc("FileNotFoundError", "Structure file not found"), cwd, disk)

(***************************************************************************)
(* Stage 2: simulation                                                     *)
(***************************************************************************)

\* A stage that goes back to the original directory only when its body
\* returned.
RestoreCwdOnSuccess(original_cwd, current, raising) ==
    IF raising THEN current ELSE original_cwd

\* finally: os.chdir(original_cwd), on the return path and on the raise path.
RestoreCwd(original_cwd, current, raising) == original_cwd

\* run_md_simulation.  env: "chdir_error" (os.chdir raises, before the try),
\* "tool_error" (an external step raises inside the try), "ok".
run_md_simulation(structure_files, cwd, disk, env) ==
    LET work_dir == structure_files.work_dir
        original_cwd == cwd
    IN IF env = "chdir_error"
       THEN Raised(Exc("FileNotFoundError", "<external>"), cwd, disk)
       ELSE LET inside == work_dir IN
            IF env = "tool_error"
            THEN Raised(Exc("Exception", "<external>"),
                        RestoreCwd(original_cwd, inside, TRUE), disk)
            ELSE Returned([trajectory_files |-> Temperatures,
                           work_dir |-> work_dir],
                          RestoreCwd(original_cwd, inside, FALSE),
                          [disk EXCEPT !.trajectories = CompleteTrajectories])

\* load_existing_simulation_results: rebuilds the simulation result from the
\* trajectory files in the work directory; their absence is fatal.
load_existing_simulation_results(structure_files, cwd, disk) ==
    IF disk.trajectories = CompleteTrajectories
    THEN Returned([trajectory_files |-> Temperatures,
                   work_dir |-> structure_files.work_dir], cwd, disk)
    ELSE Raised(Exc("FileNotFoundError", "Trajectory files not found"), cwd, disk)

(***************************************************************************)
(* Stage 3: descriptors                                                    *)
(***************************************************************************)

\* A decimal number as text in a csv file.
DecimalCell(n) == [tag |-> "decimal", v |-> n]

\* to_csv with an index column: the row label is written as a first,
\* unnamed column.
ToCsvWithIndex(df) ==
    [header |-> df.cols \cup {"Unnamed: 0"},
     line |-> [f \in df.cols \cup {"Unnamed: 0"} |->
                 IF f \in df.cols THEN DecimalCell(df.row[f]) ELSE DecimalCell(0)]]

\* descriptors_df.to_csv(descriptors_csv, index=False): a header line with
\* the column names and one line with the values as decimal text.
ToCsv(df) ==
    [header |-> df.cols, line |-> [f \in df.cols |-> DecimalCell(df.row[f])]]

\* pickle.dump(descriptors_df, f): the bytes of the table object.
PickleDump(df) == [pickled |-> df]

\* The save block of compute_descriptors: csv first, then pkl, inside one
\* try whose failure is logged and swallowed.  save: "both", "pkl_failed",
\* "csv_failed"; truncated: whether the failed write left a truncated file.
SaveDescriptors(disk, df, save, truncated) ==
    CASE save = "both" ->
            [disk EXCEPT !.csv = FileOf(ToCsv(df)), !.pkl = FileOf(PickleDump(df))]
      [] save = "pkl_failed" ->
            [disk EXCEPT !.csv = FileOf(ToCsv(df)),
                         !.pkl = IF truncated THEN Garbage ELSE @]
      [] save = "csv_failed" ->
            [disk EXCEPT !.csv = IF truncated THEN Garbage ELSE @]

\* A descriptor extraction that leaves out a temperature whose files are
\* not all there.
SkipIncompleteTemperature(files) == "complete"

\* _compute_gromacs_descriptors, the check of one temperature's required
\* files: the error its first missing file raises, or "complete".
RequiredFilesCheck(files) ==
    IF "xtc" \notin files THEN "Trajectory file not found"
    ELSE IF "gro" \notin files THEN "Structure file not found"
    ELSE IF "tpr" \notin files THEN "TPR file not found"
    ELSE "complete"

RECURSIVE ComputeGromacsDescriptors(_, _, _, _)
\* _compute_gromacs_descriptors, the loop over temps from the i-th on: each
\* temperature's files are checked, then its metrics are computed; tool is
\* "error" when an external computation raises at the first temperature.
\* The result is "ok" or the exception raised.
ComputeGromacsDescriptors(temps, i, trajectories, tool) ==
    IF i > Len(temps) THEN [ok |-> TRUE, exc |-> NoError]
    ELSE LET check == RequiredFilesCheck(trajectories[temps[i]]) IN
         IF check # "complete"
         THEN [ok |-> FALSE, exc |-> Exc("ValueError", check)]
         ELSE IF tool = "error" /\ i = 1
         THEN [ok |-> FALSE, exc |-> Exc("Exception", "<external>")]
         ELSE ComputeGromacsDescriptors(temps, i + 1, trajectories, tool)

\* compute_descriptors.  env.body: "chdir_error" (os.chdir raises, inside the
\* try), "tool_error" (a step raises), "ok"; env.df: the aggregated table;
\* env.save, env.truncated: see SaveDescriptors.
compute_descriptors(simulation_result, cwd, disk, env) ==
    LET work_dir == simulation_result.work_dir
        temps == simulation_result.trajectory_files
        original_cwd == cwd
    IN IF env.body = "chdir_error"
       THEN Raised(Exc("FileNotFoundError", "<external>"),
                   RestoreCwd(original_cwd, cwd, TRUE), disk)
       ELSE LET inside == work_dir
                step1 == ComputeGromacsDescriptors(
                             temps, 1, disk.trajectories,
                             IF env.body = "tool_error" THEN "error" ELSE "ok")
            IN
            IF ~step1.ok
            THEN Raised(step1.exc, RestoreCwd(original_cwd, inside, TRUE), disk)
            ELSE Returned([descriptors_df |-> env.df, work_dir |-> work_dir],
                          RestoreCwd(original_cwd, inside, FALSE),
                          SaveDescriptors(disk, env.df, env.save, env.truncated))

\* pd.read_csv(descriptors_csv): [ok, df]; the header line gives the column
\* names and the decimal text of each cell is parsed back into a number.
ReadCsv(file) ==
    IF file.tag = "file"
    THEN [ok |-> TRUE,
          df |-> [cols |-> file.content.header,
                  row |-> [f \in file.content.header |-> file.content.line[f].v]]]
    ELSE [ok |-> FALSE, df |-> NoValue]

\* pickle.load(f): [ok, df].
PickleLoad(file) ==
    IF file.tag = "file" THEN [ok |-> TRUE, df |-> file.content.pickled]
    ELSE [ok |-> FALSE, df |-> NoValue]

\* load_existing_descriptors: csv first, then pkl; FileNotFoundError when
\* neither yields a table.
load_existing_descriptors(simulation_result, cwd, disk) ==
    LET work_dir == simulation_result.work_dir
        fromCsv == IF disk.csv # NoFile THEN ReadCsv(disk.csv)
                   ELSE [ok |-> FALSE, df |-> NoValue]
        fromPkl == IF ~fromCsv.ok /\ disk.pkl # NoFile THEN PickleLoad(disk.pkl)
                   ELSE [ok |-> FALSE, df |-> NoValue]
    IN IF fromCsv.ok
       THEN Returned([descriptors_df |-> fromCsv.df, work_dir |-> work_dir], cwd, disk)
       ELSE IF fromPkl.ok
       THEN Returned([descriptors_df |-> fromPkl.df, work_dir |-> work_dir], cwd, disk)
       ELSE Raised(Exc("FileNotFoundError",
                       "Descriptor file not found when skipping descriptor computation"),
                   cwd, disk)

(***************************************************************************)
(* Stage 4: inference                                                      *)
(***************************************************************************)

\* target_names: the column of the predictions file a model is written to
\* (the unit suffix of the column title is left out).
TargetName(m) ==
    CASE m = "tagg" -> "T_agg"
      [] m = "tm"   -> "T_m"
      [] m = "tmon" -> "T_m_onset"

\* A cell of the predictions file holding the text "N/A"; the other cells
\* hold decimal numbers.
NaCell == [tag |-> "N/A"]

\* _format_predictions: one row, the antibody column plus one column per
\* entry of the predictions dictionary.
FormatPredictions(preds, antibody_name) ==
    [antibody |-> antibody_name,
     cells |-> [t \in {TargetName(m) : m \in DOMAIN preds} |->
                  LET m == CHOOSE k \in DOMAIN preds : TargetName(k) = t IN
                  IF preds[m] # None /\ Len(preds[m].data) > 0
                  THEN DecimalCell(preds[m].data[1].v)
                  ELSE NaCell]]

\* _save_predictions: <work_dir>/<antibody_name>_predictions.csv.
SavePredictions(disk, results, antibody_name) ==
    [disk EXCEPT !.predictions[antibody_name] = FileOf(results)]

\* run_model_inference.  env: "saved" or "save_failed" (the write raises; the
\* failure is logged and swallowed).
run_model_inference(descriptor_result, arts, cwd, disk, env) ==
    LET work_dir == descriptor_result.work_dir
        antibody_name == work_dir
    IN IF ~ConstructOk(arts)
       THEN Raised(Exc("FileNotFoundError", "Missing model files"), cwd, disk)
       ELSE LET p == PredictAll(descriptor_result.descriptors_df, arts, {}) IN
            IF p.raised
            THEN Raised(Exc("Exception", "<external>"), cwd, disk)
            ELSE LET results == FormatPredictions(p.predictions, antibody_name) IN
                 Returned([predictions |-> p.predictions,
                           results |-> results,
                           work_dir |-> work_dir],
                          cwd,
                          IF env = "saved"
                          THEN SavePredictions(disk, results, antibody_name)
                          ELSE disk)

\* pd.read_csv of a cell: "N/A" is read as not-a-number.
ReadCell(cell) == IF cell = NaCell THEN NaN ELSE Float(cell.v)

\* load_existing_predictions: reads <work_dir>/<antibody_name>_predictions.csv.
load_existing_predictions(work_dir, antibody_name, cwd, disk) ==
    LET file == disk.predictions[antibody_name] IN
    IF file = NoFile
    THEN Raised(Exc("FileNotFoundError", "Predictions file not found"), cwd, disk)
    ELSE IF file = Garbage
    THEN Raised(Exc("Exception", "<external>"), cwd, disk)
    ELSE LET results_df == file.content IN
         Returned([predictions |->
                      [m \in ModelSet |->
                         IF TargetName(m) \in DOMAIN results_df.cells
                         THEN NdArray(<<ReadCell(results_df.cells[TargetName(m)])>>)
                         ELSE None],
                   results |-> results_df,
                   work_dir |-> work_dir], cwd, disk)

(***************************************************************************)
(* Descriptor aggregation (src/compute_descriptors.py)                     *)
(*                                                                         *)
(* A file name without its extension and a feature name are the sequence   *)
(* of their pieces: the text between "_", a "=" ending its piece           *)
(* ("bonds_lh_300" is <<"bonds", "lh", "300">>, "r-lamda_b=25_eq=20" is      *)
(* <<"r-lamda", "b=", "25", "eq=", "20">>).  No piece of the names below     *)
(* contains another piece, so a substring test is membership of a piece.   *)
(***************************************************************************)

\* Python's None next to a dictionary or list: [tag |-> "dict", values].
Dict(values) == [tag |-> "dict", values |-> values]

\* Truth value of None, of an empty and of a non-empty dictionary.
Truthy(x) == x.tag = "dict" /\ Len(x.values) > 0

\* `piece in metric_name`
Contains(piece, name) == piece \in Range(name)

\* int(t) and str(n) on the temperatures of the configuration
IntOf(t) ==
    CASE t = "300" -> 300
      [] t = "350" -> 350
      [] t = "400" -> 400

\* The first t of temps that metric_name contains, if any.
TempOf(metric_name, temps) ==
    LET hits == {i \in 1..Len(temps) : Contains(temps[i], metric_name)} IN
    IF hits = {} THEN [found |-> FALSE, temp |-> ""]
    ELSE [found |-> TRUE,
          temp |-> temps[CHOOSE i \in hits : \A j \in hits : i <= j]]

RECURSIVE RemovePrefix(_, _)
\* name.replace(piece + "_", "")
RemovePrefix(name, piece) ==
    IF Len(name) <= 1 THEN name
    ELSE IF Head(name) = piece THEN RemovePrefix(Tail(name), piece)
    ELSE <<Head(name)>> \o RemovePrefix(Tail(name), piece)

\* name.replace("_" + piece, "")
RemoveSuffix(name, piece) ==
    IF Len(name) = 0 THEN name
    ELSE <<Head(name)>> \o SelectSeq(Tail(name), LAMBDA x : x # piece)

\* metric_name.replace(family + "_", "").replace("_" + temp, "")
Region(metric_name, family, temp) ==
    RemoveSuffix(RemovePrefix(metric_name, family), temp)

\* The data lines of an .xvg file are runs of equal lines: n lines whose
\* columns after the first (the time, or the radius) are row; width is the
\* number of columns of a line, the first included.
XvgFile(name, width, runs) == [name |-> name, width |-> width, runs |-> runs]

RECURSIVE Rows(_)
\* len(data)
Rows(runs) ==
    IF Len(runs) = 0 THEN 0 ELSE Head(runs).n + Rows(Tail(runs))

\* _parse_xvg_file: lines of 2 columns give a 1-D array, lines of 3 to 5
\* columns an array of 2 to 4 columns, lines of any other width nothing.
ParseXvgFile(file) ==
    IF file.width \notin 2..5 \/ Rows(file.runs) = 0
    THEN [tag |-> "None"]
    ELSE [tag |-> "array",
          ndim |-> IF file.width = 2 THEN 1 ELSE 2,
          columns |-> file.width - 1,
          runs |-> file.runs]

RECURSIVE Slice(_, _)
\* data[k:]
Slice(runs, k) ==
    IF k = 0 \/ Len(runs) = 0 THEN runs
    ELSE IF Head(runs).n <= k THEN Slice(Tail(runs), k - Head(runs).n)
    ELSE <<[n |-> Head(runs).n - k, row |-> Head(runs).row]>> \o Tail(runs)

RECURSIVE RowAt(_, _)
\* data[k], for k < len(data)
RowAt(runs, k) ==
    IF k < Head(runs).n THEN Head(runs).row
    ELSE RowAt(Tail(runs), k - Head(runs).n)

RECURSIVE Gcd(_, _)
Gcd(a, b) == IF b = 0 THEN a ELSE Gcd(b, a % b)

\* A feature value: the root-th root of the fraction num/den in lowest
\* terms; the square root of a square is the number itself.
Number(num, den) ==
    LET g == Gcd(num, den) IN
    [tag |-> "number", root |-> 1, num |-> num \div g, den |-> den \div g]

IsSquare(n) == \E k \in 0..n : k * k = n

SqrtOf(num, den) ==
    LET f == Number(num, den) IN
    IF IsSquare(f.num) /\ IsSquare(f.den)
    THEN Number(CHOOSE k \in 0..f.num : k * k = f.num,
                CHOOSE k \in 0..f.den : k * k = f.den)
    ELSE [f EXCEPT !.root = 2]

RECURSIVE SumPow(_, _, _)
\* sum of the p-th powers of column c (1 or 2 for p)
SumPow(runs, c, p) ==
    IF Len(runs) = 0 THEN 0
    ELSE LET v == Head(runs).row[c] IN
         Head(runs).n * (IF p = 1 THEN v ELSE v * v) + SumPow(Tail(runs), c, p)

\* np.mean(data[:, c - 1])
Mean(runs, c) == Number(SumPow(runs, c, 1), Rows(runs))

\* np.std(data[:, c - 1])
Std(runs, c) ==
    LET n == Rows(runs)
        s == SumPow(runs, c, 1)
    IN  SqrtOf(n * SumPow(runs, c, 2) - s * s, n * n)

\* np.mean, np.std of list(d.values())
ListRuns(values) == [i \in 1..Len(values) |-> [n |-> 1, row |-> <<values[i]>>]]

\* descriptor_dict = {}
EmptyDict == [name \in {} |-> Number(0, 1)]

\* descriptor_dict[name] = value
Put(d, name, value) == (name :> value) @@ d

\* The assignments of items, pairs <<name, value>>, in their order: a name
\* keeps the value of its last assignment.
PutAll(d, items) ==
    LET assigned == {items[i][1] : i \in 1..Len(items)}
        last(name) == CHOOSE i \in 1..Len(items) :
                         /\ items[i][1] = name
                         /\ \A j \in (i + 1)..Len(items) : items[j][1] # name
    IN  [name \in assigned |-> items[last(name)][2]] @@ d

\* The two features f"{prefix}_mu_{temp}", f"{prefix}_std_{temp}" of column c.
MuStd(prefix, temp, runs, c) ==
    << <<prefix \o <<"mu", temp>>, Mean(runs, c)>>,
       <<prefix \o <<"std", temp>>, Std(runs, c)>> >>

\* The ndim == 1 branch: the features of a single-column file.
Aggregate1D(d, metric_name, temp, runs) ==
    IF Contains("bonds", metric_name)
    THEN IF Contains("lh", metric_name)
         THEN PutAll(d, MuStd(<<"bonds", "lh">>, temp, runs, 1))
         ELSE PutAll(d, MuStd(<<"bonds", "hbonds">>, temp, runs, 1))
    ELSE IF Contains("sasa", metric_name)
    THEN PutAll(d, MuStd(<<"sasa">> \o Region(metric_name, "sasa", temp),
                         temp, runs, 1))
    ELSE IF Contains("rmsd", metric_name)
    THEN PutAll(d, MuStd(<<"rmsd">>, temp, runs, 1))
    ELSE IF Contains("rmsf", metric_name)
    THEN PutAll(d, MuStd(<<"rmsf">> \o Region(metric_name, "rmsf", temp),
                         temp, runs, 1))
    ELSE IF Contains("gyr", metric_name)
    THEN PutAll(d, MuStd(<<"gyr">> \o Region(metric_name, "gyr", temp) \o <<"Rg">>,
                         temp, runs, 1))
    ELSE IF Contains("potential", metric_name)
    THEN d
    ELSE IF Contains("dipole", metric_name)
    THEN PutAll(d, MuStd(<<"dipole">>, temp, runs, 1))
    ELSE d

\* The row of a potential file whose value is taken, by region.
RadiusIdx(region) ==
    IF region \in {<<"cdrl1">>, <<"cdrl2">>, <<"cdrl3">>,
                   <<"cdrh1">>, <<"cdrh2">>, <<"cdrh3">>} THEN 2
    ELSE IF region = <<"cdrs">> THEN 5
    ELSE 2

\* The ndim == 2 branch: the features of a file of `columns` data columns.
Aggregate2D(d, metric_name, temp, runs, columns) ==
    IF Contains("potential", metric_name)
    THEN LET region == Region(metric_name, "potential", temp)
             radius_idx == RadiusIdx(region)
         IN  IF Rows(runs) > radius_idx
             THEN PutAll(d,
                    << <<<<"potential">> \o region \o <<"mu", temp>>,
                         Number(RowAt(runs, radius_idx)[2], 1)>>,
                       <<<<"potential">> \o region \o <<"std", temp>>,
                         Number(0, 1)>> >>)
             ELSE d
    ELSE IF columns >= 4
    THEN IF Contains("gyr", metric_name)
         THEN LET gyr == <<"gyr">> \o Region(metric_name, "gyr", temp) IN
              PutAll(d, MuStd(gyr \o <<"Rg">>, temp, runs, 1)
                        \o MuStd(gyr \o <<"Rx">>, temp, runs, 2)
                        \o MuStd(gyr \o <<"Ry">>, temp, runs, 3)
                        \o MuStd(gyr \o <<"Rz">>, temp, runs, 4))
         ELSE d
    ELSE IF columns = 2
    THEN IF Contains("bonds", metric_name)
         THEN PutAll(d, MuStd(<<"bonds", "hbonds">>, temp, runs, 1)
                        \o MuStd(<<"bonds", "contacts">>, temp, runs, 2))
         ELSE d
    ELSE IF columns = 3
    THEN IF Contains("dipole", metric_name)
         THEN PutAll(d, MuStd(<<"dipole">>, temp, runs, 3))
         ELSE d
    ELSE d

\* data, whatever the file and the equilibration time.
WholeData(metric_name, runs, eq_start_idx) == runs

\* equilibrated_data: an rmsf file is per residue and is kept whole, any
\* other file loses its first eq_start_idx rows.
EquilibratedData(metric_name, runs, eq_start_idx) ==
    IF Contains("rmsf", metric_name) THEN runs ELSE Slice(runs, eq_start_idx)

\* One pass of the loop over xvg_files: the features file adds to d.
AggregateXvgFile(d, file, temps, eq_time) ==
    LET metric_name == file.name
        t == TempOf(metric_name, temps)
        data == ParseXvgFile(file)
        eq_start_idx == (eq_time * 1000) \div 10
    IN  IF ~t.found THEN d
        ELSE IF data.tag = "None" THEN d
        ELSE IF ~Contains("rmsf", metric_name) /\ Rows(data.runs) <= eq_start_idx
        THEN d
        ELSE LET equilibrated_data ==
                     EquilibratedData(metric_name, data.runs, eq_start_idx)
             IN  IF data.ndim = 1
                 THEN Aggregate1D(d, metric_name, t.temp, equilibrated_data)
                 ELSE Aggregate2D(d, metric_name, t.temp, equilibrated_data,
                                  data.columns)

RECURSIVE Flatten(_)
\* The concatenation of a sequence of sequences.
Flatten(ss) == IF Len(ss) = 0 THEN << >> ELSE Head(ss) \o Flatten(Tail(ss))

\* The block lengths of the default configuration, [2.5, 25], as they print
\* in a feature name.
BlockLengths == <<"2.5", "25">>

\* The order parameter features: for each block length, for each temperature
\* holding S2 values, their mean and standard deviation.
OrderItems(block_lengths, master_s2_dicts, temps) ==
    Flatten([i \in 1..Len(block_lengths) |->
        Flatten([j \in 1..Len(temps) |->
            LET block_length == block_lengths[i]
                temp_int == IntOf(temps[j])
                s2_values == master_s2_dicts[block_length][temp_int]
                name == <<"order", "s2", ToString(temp_int), "b=", block_length>>
            IN  IF Truthy(s2_values)
                THEN << <<name \o <<"mu">>, Mean(ListRuns(s2_values.values), 1)>>,
                        <<name \o <<"std">>, Std(ListRuns(s2_values.values), 1)>> >>
                ELSE << >>])])

\* The pair a block length without lambda is given.
NoLambda == [lambda |-> None, r |-> None]

\* A block length without lambda given zero slopes instead.
ZeroLambda(master_s2_dict, temps, get_lambda) ==
    LET available_temps ==
            SelectSeq([j \in 1..Len(temps) |-> IntOf(temps[j])],
                      LAMBDA t : Truthy(master_s2_dict[t]))
    IN  IF Len(available_temps) < 2 \/ get_lambda.tag = "raise"
        THEN [lambda |-> Dict(<<0>>), r |-> Dict(<<0>>)]
        ELSE [lambda |-> get_lambda.lambda, r |-> get_lambda.r]

\* One pass of the loop of _compute_lambda_features: the lambda and r
\* dictionaries of a block length; get_lambda is what order_lambda and
\* get_lambda do when called: raise, or return the two dictionaries.
LambdaOfBlock(master_s2_dict, temps, get_lambda) ==
    LET available_temps ==
            SelectSeq([j \in 1..Len(temps) |-> IntOf(temps[j])],
                      LAMBDA t : Truthy(master_s2_dict[t]))
    IN  IF Len(available_temps) < 2 THEN NoLambda
        ELSE IF get_lambda.tag = "raise" THEN NoLambda
        ELSE [lambda |-> get_lambda.lambda, r |-> get_lambda.r]

\* Step 4 of compute_descriptors: all_lambda_features, or None.
ComputeLambdaFeatures(master_s2_dicts, temps, compute_lambda, get_lambda) ==
    IF Len(temps) >= 2 /\ compute_lambda
    THEN [tag |-> "dict",
          blocks |-> [b \in DOMAIN master_s2_dicts |->
                        LambdaOfBlock(master_s2_dicts[b], temps, get_lambda[b])]]
    ELSE None

\* The names of the lambda features as the predictors were trained on them,
\* whatever the equilibration time of the run.
TrainedLambdaNames(block_length, eq_time) ==
    << <<"all-temp", "lamda", "b=", block_length, "eq=", "20">>,
       <<"r-lamda", "b=", block_length, "eq=", "20">>,
       <<"all-temp", "lamda", "r", "b=", block_length, "eq=", "20">> >>

\* The names of the lambda features of a block length.
LambdaNames(block_length, eq_time) ==
    << <<"all-temp", "lamda", "b=", block_length, "eq=", ToString(eq_time)>>,
       <<"r-lamda", "b=", block_length, "eq=", ToString(eq_time)>>,
       <<"all-temp", "lamda", "r", "b=", block_length, "eq=", ToString(eq_time)>> >>

\* The lambda features: for each block length with both dictionaries, the
\* mean slope and, twice, the mean correlation coefficient.
LambdaItems(block_lengths, all_lambda_features, eq_time) ==
    IF all_lambda_features.tag # "dict" THEN << >>
    ELSE Flatten([i \in 1..Len(block_lengths) |->
            LET block_length == block_lengths[i]
                pair == all_lambda_features.blocks[block_length]
                names == LambdaNames(block_length, eq_time)
            IN  IF Truthy(pair.lambda) /\ Truthy(pair.r)
                THEN << <<names[1], Mean(ListRuns(pair.lambda.values), 1)>>,
                        <<names[2], Mean(ListRuns(pair.r.values), 1)>>,
                        <<names[3], Mean(ListRuns(pair.r.values), 1)>> >>
                ELSE << >>])

\* The keys of a temperature's core/surface SASA statistics.
SasaKeys ==
    << <<"total", "mean">>, <<"core", "mean">>, <<"surface", "mean">>,
       <<"total", "std">>, <<"core", "std">>, <<"surface", "std">> >>

RECURSIVE SumProd(_, _, _)
\* The sum over the points of the product of their coordinates p and q
\* (1 for the temperature, 2 for the value, 0 for the number 1).
SumProd(data_points, p, q) ==
    IF Len(data_points) = 0 THEN 0
    ELSE (IF p = 0 THEN 1 ELSE Head(data_points)[p])
         * (IF q = 0 THEN 1 ELSE Head(data_points)[q])
         + SumProd(Tail(data_points), p, q)

\* get_slope (res_sasa, not part of the sources): the slope of the
\* ordinary least squares line through the points (temperature, value).
GetSlope(data_points) ==
    LET n == Len(data_points) IN
    Number(n * SumProd(data_points, 1, 2)
             - SumProd(data_points, 1, 0) * SumProd(data_points, 2, 0),
           n * SumProd(data_points, 1, 1)
             - SumProd(data_points, 1, 0) * SumProd(data_points, 1, 0))

\* No temperature has the statistic.
NoDataPoints(sasa_dict, temps, key) == << >>

\* data_points: the statistic `key` at the temperatures of temps that
\* sasa_dict holds.
DataPoints(sasa_dict, temps, key) ==
    LET with_key == SelectSeq(temps, LAMBDA t : t \in DOMAIN sasa_dict) IN
    [j \in 1..Len(with_key) |-> <<IntOf(with_key[j]), sasa_dict[with_key[j]][key]>>]

\* The core/surface SASA features: each temperature's statistics and, with
\* two temperatures or more, the slope of each statistic over the
\* temperatures that have it.
SasaItems(sasa_dict, temps, core_surface_k, eq_time) ==
    IF DOMAIN sasa_dict = {} THEN << >>
    ELSE Flatten([j \in 1..Len(temps) |->
            IF temps[j] \in DOMAIN sasa_dict
            THEN [i \in 1..Len(SasaKeys) |->
                    << <<"sasa">> \o SasaKeys[i] \o <<temps[j]>>,
                       Number(sasa_dict[temps[j]][SasaKeys[i]], 1) >>]
            ELSE << >>])
         \o
         IF Len(temps) >= 2
         THEN Flatten([i \in 1..Len(SasaKeys) |->
                LET data_points == DataPoints(sasa_dict, temps, SasaKeys[i])
                IN  IF Len(data_points) >= 2
                    THEN << << <<"all-temp-sasa">> \o SasaKeys[i]
                                 \o <<"k=", ToString(core_surface_k),
                                      "eq=", ToString(eq_time)>>,
                               GetSlope(data_points) >> >>
                    ELSE << >>])
         ELSE << >>

\* The conformational entropy features: for each temperature with a log,
\* the value of each entropy line of the log, in the order of the lines.
EntropyItems(logs, temps) ==
    Flatten([j \in 1..Len(temps) |->
        IF temps[j] \in DOMAIN logs
        THEN [i \in 1..Len(logs[temps[j]]) |->
                LET line == logs[temps[j]][i] IN
                << <<"sconf", line.kind, temps[j]>>, Number(line.entropy, 1) >>]
        ELSE << >>])

\* pd.DataFrame([descriptor_dict])
DataFrame(d) == [cols |-> DOMAIN d, row |-> d]

\* _aggregate_descriptors_to_dataframe after its loop over xvg_files: the
\* computed features are added to d in the order of the code.
AggregateComputed(d, args, all_lambda_features) ==
    DataFrame(
        PutAll(d, OrderItems(args.block_lengths, args.master_s2_dicts, args.temps)
                  \o LambdaItems(args.block_lengths, all_lambda_features,
                                 args.eq_time)
                  \o SasaItems(args.sasa_dict, args.temps, args.core_surface_k, args.eq_time)
                  \o EntropyItems(args.logs, args.temps)))

(***************************************************************************)
(* From the configuration to the names of the features, and from the       *)
(* table of the descriptor stage to the predictors                         *)
(***************************************************************************)

\* A number of the configuration: an integer, or a float with one decimal.
IntValue(n) == [float |-> FALSE, whole |-> n, tenths |-> 0]

FloatValue(whole, tenths) == [float |-> TRUE, whole |-> whole, tenths |-> tenths]

\* str(value), as an f-string prints it: 25 is "25", 25.0 is "25.0".
Str(value) ==
    IF value.float
    THEN ToString(value.whole) \o "." \o ToString(value.tenths)
    ELSE ToString(value.whole)

\* block_lengths of compute_descriptors: desc_config["block_length"], made a
\* list if it is not one; the block lengths as they print.
BlockLengthsOf(block_length) ==
    IF block_length.tag = "list"
    THEN [i \in 1..Len(block_length.items) |-> Str(block_length.items[i])]
    ELSE <<Str(block_length.value)>>

RECURSIVE JoinName(_)
\* The text of a feature name from its pieces: "_" between two pieces,
\* nothing after a piece that ends with "=".
JoinName(name) ==
    IF Len(name) = 0 THEN ""
    ELSE IF Len(name) = 1 THEN name[1]
    ELSE LET head == name[1]
             glue == IF SubSeq(head, Len(head), Len(head)) = "=" THEN "" ELSE "_"
         IN  head \o glue \o JoinName(Tail(name))

\* A feature value as the predictors of the model take it: a number that
\* tells the values of the model apart.
AsScalar(value) ==
    value.num + 100 * (value.den - 1) + 10000 * (value.root - 1)

\* descriptor_result["descriptors_df"] as run_model_inference receives it:
\* the table of the descriptor stage, its columns named by their text.
DescriptorsTable(df) ==
    [cols |-> {JoinName(name) : name \in df.cols},
     row |-> [f \in {JoinName(name) : name \in df.cols} |->
                AsScalar(df.row[CHOOSE name \in df.cols : JoinName(name) = f])]]

RECURSIVE AggregateXvgFiles(_, _, _, _)
\* The loop over xvg_files, in one of the orders glob can return them.
AggregateXvgFiles(d, files, temps, eq_time) ==
    IF files = {} THEN d
    ELSE LET file == CHOOSE f \in files : TRUE IN
         AggregateXvgFiles(AggregateXvgFile(d, file, temps, eq_time),
                           files \ {file}, temps, eq_time)

(***************************************************************************)
(* The cleanup utility (src/cleanup_temp_files.py).  File names and        *)
(* patterns are strings; a pattern with a placeholder is the sequence of   *)
(* its pieces, the placeholder one of them.                                *)
(***************************************************************************)

RECURSIVE GlobMatch(_, _)
\* Path.glob(pattern) on a file name: "*" stands for any text, every other
\* character of the patterns below for itself.
GlobMatch(pattern, name) ==
    IF Len(pattern) = 0 THEN Len(name) = 0
    ELSE IF Head(pattern) = "*"
    THEN \/ GlobMatch(Tail(pattern), name)
         \/ Len(name) > 0 /\ GlobMatch(pattern, Tail(name))
    ELSE /\ Len(name) > 0
         /\ Head(pattern) = Head(name)
         /\ GlobMatch(Tail(pattern), Tail(name))

\* work_dir.glob(pattern)
Glob(dir, pattern) == {f \in dir : GlobMatch(pattern, f)}

RECURSIVE Format(_, _, _)
\* pattern.format(key=value)
Format(pattern, key, value) ==
    IF Len(pattern) = 0 THEN ""
    ELSE (IF Head(pattern) = key THEN value ELSE Head(pattern))
         \o Format(Tail(pattern), key, value)

\* `"{temp}" in pattern`
HasPlaceholder(pattern, key) == key \in Range(pattern)

\* REQUIRED_FILES
REQUIRED_FILES ==
    [structure |-> << <<"{antibody_name}", ".pdb">>, <<"processed.pdb">>,
                      <<"processed.gro">>, <<"topol.top">>, <<"index.ndx">> >>,
     md_final |-> << <<"md_final_", "{temp}", ".xtc">>,
                     <<"md_final_", "{temp}", ".gro">>,
                     <<"md_", "{temp}", ".tpr">> >>,
     descriptors |-> << <<"descriptors.csv">>, <<"descriptors.pkl">>, <<"*.xvg">>,
                        <<"res_sasa_", "{temp}", ".np">>,
                        <<"sconf_", "{temp}", ".log">> >>,
     predictions |-> << <<"{antibody_name}", "_predictions.csv">> >>]

\* INTERMEDIATE_PATTERNS
INTERMEDIATE_PATTERNS ==
    << <<"#*#">>,
       <<"md_whole_*.xtc">>, <<"md_nopbcjump_*.xtc">>,
       <<"md_", "{temp}", ".xtc">>, <<"md_", "{temp}", ".gro">>,
       <<"nvt_*.gro">>, <<"nvt_*.xtc">>, <<"nvt_*.tpr">>, <<"nvt_*.cpt">>,
       <<"nvt_*.edr">>, <<"nvt_*.log">>,
       <<"npt_*.gro">>, <<"npt_*.xtc">>, <<"npt_*.tpr">>, <<"npt_*.cpt">>,
       <<"npt_*.edr">>, <<"npt_*.log">>,
       <<"box.gro">>, <<"solv.gro">>, <<"solv_ions.gro">>, <<"em.gro">>,
       <<"em.tpr">>, <<"em.edr">>, <<"em.log">>, <<"ions.tpr">>,
       <<"md_final_covar_*.xtc">>, <<"covar_*.trr">>, <<"covar_*.xvg">>,
       <<"covar.log">>, <<"avg_covar*.pdb">>, <<"covar_matrix_*.dat">>,
       <<"md_", "{temp}", "_*.gro">>, <<"md_", "{temp}", "_*.xtc">>,
       <<"md_", "{temp}", "_*.tpr">>,
       <<"em.trr">>, <<"hbond.ndx">>,
       <<"*.pka">>,
       <<"md_*.log">>, <<"md_*.edr">>,
       <<"*.cpt">>,
       <<"nvt_*.mdp">>, <<"npt_*.mdp">>, <<"md_*.mdp">>, <<"mdout.mdp">>,
       <<"ions.mdp">>, <<"em.mdp">>,
       <<"posre_*.itp">>, <<"topol_*.itp">> >>

\* get_required_files: the required paths, existing or not.
get_required_files(dir, antibody_name, temperatures) ==
    LET structure == REQUIRED_FILES.structure
        md_final == REQUIRED_FILES.md_final
        descriptors == REQUIRED_FILES.descriptors
        predictions == REQUIRED_FILES.predictions
    IN  {Format(structure[i], "{antibody_name}", antibody_name) :
            i \in 1..Len(structure)}
        \cup
        {Format(md_final[i], "{temp}", temperatures[j]) :
            i \in 1..Len(md_final), j \in 1..Len(temperatures)}
        \cup
        UNION { IF HasPlaceholder(descriptors[i], "{temp}")
                THEN {Format(descriptors[i], "{temp}", temperatures[j])}
                ELSE IF descriptors[i] = <<"*.xvg">>
                THEN Glob(dir, "*.xvg")
                ELSE {} :
                i \in 1..Len(descriptors), j \in 1..Len(temperatures) }
        \cup {"descriptors.csv", "descriptors.pkl"}
        \cup Glob(dir, "order_s2_*.csv")
        \cup Glob(dir, "order_lambda_*.csv")
        \cup {Format(predictions[i], "{antibody_name}", antibody_name) :
                i \in 1..Len(predictions)}

\* f.name.startswith("#") and f.name.endswith("#")
IsBackup(name) ==
    /\ Len(name) > 0
    /\ Head(name) = "#"
    /\ SubSeq(name, Len(name), Len(name)) = "#"

\* get_intermediate_files: the files of the directory an intermediate
\* pattern matches.
get_intermediate_files(dir, temperatures) ==
    UNION { LET pattern == INTERMEDIATE_PATTERNS[i] IN
            IF HasPlaceholder(pattern, "{temp}")
            THEN UNION { Glob(dir, Format(pattern, "{temp}", temperatures[j])) :
                            j \in 1..Len(temperatures) }
            ELSE IF pattern = <<"#*#">>
            THEN {f \in dir : IsBackup(f)}
            ELSE Glob(dir, Format(pattern, "{temp}", "")) :
            i \in 1..Len(INTERMEDIATE_PATTERNS) }

\* cleanup_temp_directory up to its report: the files it is to delete.
ToDelete(dir, antibody_name, temperatures, keep_order_params) ==
    LET required == get_required_files(dir, antibody_name, temperatures)
        intermediate == get_intermediate_files(dir, temperatures)
        kept == IF keep_order_params
                THEN intermediate \ Glob(dir, "order_*.csv")
                ELSE intermediate
    IN  kept \ required

(***************************************************************************)
(* The external invocations of the descriptor extractor                    *)
(* (src/compute_descriptors.py, _compute_gromacs_descriptors)              *)
(***************************************************************************)

\* cdr_regions, in the order of the dictionary
CdrRegions == <<"cdrl1", "cdrl2", "cdrl3", "cdrh1", "cdrh2", "cdrh3", "cdrs">>

\* One external invocation: the tool, the metric and region it computes
\* ("" for the whole structure), the file listed in xvg_files after it
\* ("" for none), whether it is given n=index_file, and the try block that
\* catches its failure: "outer" (logs and re-raises), "entropy" or
\* "potential" (log a warning and go on).
Invocation(tool, metric, region, output, index, guard) ==
    [tool |-> tool, metric |-> metric, region |-> region, output |-> output,
     index |-> index, guard |-> guard]

\* The invocations of one temperature, in the order of the code.
Invocations(temp) ==
    << Invocation("sasa", "sasa", "", "sasa_" \o temp \o ".xvg", FALSE, "outer"),
       Invocation("hbond_legacy", "bonds", "", "bonds_" \o temp \o ".xvg", FALSE, "outer"),
       Invocation("rms", "rmsd", "", "rmsd_" \o temp \o ".xvg", FALSE, "outer"),
       Invocation("gyrate", "gyr", "", "gyr_" \o temp \o ".xvg", TRUE, "outer") >>
    \o [r \in 1..Len(CdrRegions) |->
          Invocation("sasa", "sasa", CdrRegions[r],
                     "sasa_" \o CdrRegions[r] \o "_" \o temp \o ".xvg", TRUE, "outer")]
    \o << Invocation("hbond", "bonds_lh", "lh", "bonds_lh_" \o temp \o ".xvg",
                     TRUE, "outer") >>
    \o [r \in 1..Len(CdrRegions) |->
          Invocation("rmsf", "rmsf", CdrRegions[r],
                     "rmsf_" \o CdrRegions[r] \o "_" \o temp \o ".xvg", TRUE, "outer")]
    \o [r \in 1..Len(CdrRegions) |->
          Invocation("gyrate", "gyr", CdrRegions[r],
                     "gyr_" \o CdrRegions[r] \o "_" \o temp \o ".xvg", TRUE, "outer")]
    \o << Invocation("trjconv", "entropy", "", "", TRUE, "entropy"),
          Invocation("covar", "entropy", "", "", TRUE, "entropy"),
          Invocation("anaeig", "entropy", "", "", TRUE, "entropy") >>
    \o [r \in 1..Len(CdrRegions) |->
          Invocation("potential", "potential", CdrRegions[r],
                     "potential_" \o CdrRegions[r] \o "_" \o temp \o ".xvg",
                     TRUE, "potential")]
    \o << Invocation("dipoles", "dipole", "", "dipole_" \o temp \o ".xvg",
                     TRUE, "outer") >>

\* The invocation the extractor goes on with when the k-th of a temperature
\* raised inside a try block that does not re-raise: the next one for a
\* potential, the first one after the entropy block for an entropy step.
AfterCaught(invocations, k) ==
    IF invocations[k].guard = "potential" THEN k + 1
    ELSE 1 + CHOOSE j \in k..Len(invocations) :
                /\ invocations[j].guard = "entropy"
                /\ (j = Len(invocations) \/ invocations[j + 1].guard # "entropy")
                /\ \A h \in k..j : invocations[h].guard = "entropy"

(***************************************************************************)
(* _parse_xvg_file on the text of a file (src/compute_descriptors.py)      *)
(***************************************************************************)

\* line.startswith(prefix)
StartsWith(line, prefix) ==
    Len(line) >= Len(prefix) /\ SubSeq(line, 1, Len(prefix)) = prefix

\* No line is taken for a comment.
NoComment(line) == FALSE

\* line.startswith("#") or line.startswith("@")
IsComment(line) == StartsWith(line, "#") \/ StartsWith(line, "@")

RECURSIVE SplitFrom(_, _, _)
\* The words of line after the word begun as `word`, cols being the words
\* before it.
SplitFrom(line, word, cols) ==
    LET closed == IF word = "" THEN cols ELSE Append(cols, word) IN
    IF Len(line) = 0 THEN closed
    ELSE IF SubSeq(line, 1, 1) = " "
    THEN SplitFrom(Tail(line), "", closed)
    ELSE SplitFrom(Tail(line), word \o SubSeq(line, 1, 1), cols)

\* line.split()
Split(line) == SplitFrom(line, "", << >>)

\* The digits float() reads.
Digits == <<"0", "1", "2", "3", "4", "5", "6", "7", "8", "9">>

\* The word is made of digits.
IsNumeral(word) ==
    /\ Len(word) >= 1
    /\ \A p \in 1..Len(word) :
          \E n \in 1..Len(Digits) : SubSeq(word, p, p) = Digits[n]

RECURSIVE DecimalValue(_)
\* The number a word of digits writes.
DecimalValue(word) ==
    IF Len(word) = 0 THEN 0
    ELSE 10 * DecimalValue(SubSeq(word, 1, Len(word) - 1))
         + ((CHOOSE n \in 1..Len(Digits) :
                SubSeq(word, Len(word), Len(word)) = Digits[n]) - 1)

\* The columns 0..4 of a line that float() reads; a column of the model that
\* is not made of digits makes float() raise ValueError.
FloatsRaise(cols) ==
    Len(cols) \in 2..5 /\ \E c \in 1..Len(cols) : ~IsNumeral(cols[c])

\* The five lists before any line is read.
EmptyLists == [t |-> << >>, x |-> << >>, y |-> << >>, z |-> << >>, r |-> << >>]

\* One pass of `for line in f` that does not raise: what the line appends to
\* the lists t, x, y, z, r.
ReadXvgLine(lists, line) ==
    IF IsComment(line) THEN lists
    ELSE LET cols == Split(line)
             v == [c \in 1..Len(cols) |-> DecimalValue(cols[c])]
         IN  IF Len(cols) = 2
             THEN [lists EXCEPT !.t = Append(@, v[1]), !.x = Append(@, v[2])]
             ELSE IF Len(cols) = 3
             THEN [lists EXCEPT !.t = Append(@, v[1]), !.x = Append(@, v[2]),
                                !.y = Append(@, v[3])]
             ELSE IF Len(cols) = 4
             THEN [lists EXCEPT !.t = Append(@, v[1]), !.x = Append(@, v[2]),
                                !.y = Append(@, v[3]), !.z = Append(@, v[4])]
             ELSE IF Len(cols) = 5
             THEN [lists EXCEPT !.t = Append(@, v[1]), !.r = Append(@, v[2]),
                                !.x = Append(@, v[3]), !.y = Append(@, v[4]),
                                !.z = Append(@, v[5])]
             ELSE lists

\* np.column_stack(columns): the rows of lists of one length; lists of
\* different lengths make it raise ValueError.
ColumnStack(columns) ==
    IF \E c \in 1..Len(columns) : Len(columns[c]) # Len(columns[1])
    THEN [tag |-> "None"]
    ELSE [tag |-> "array", ndim |-> 2,
          rows |-> [j \in 1..Len(columns[1]) |->
                      [c \in 1..Len(columns) |-> columns[c][j]]]]

\* The value returned once every line is read; an exception of column_stack
\* is caught and None returned.
XvgArray(lists) ==
    IF Len(lists.r) > 0 THEN ColumnStack(<<lists.r, lists.x, lists.y, lists.z>>)
    ELSE IF Len(lists.z) > 0 THEN ColumnStack(<<lists.x, lists.y, lists.z>>)
    ELSE IF Len(lists.y) > 0 THEN ColumnStack(<<lists.x, lists.y>>)
    ELSE IF Len(lists.x) > 0
    THEN [tag |-> "array", ndim |-> 1,
          rows |-> [j \in 1..Len(lists.x) |-> <<lists.x[j]>>]]
    ELSE [tag |-> "None"]

(***************************************************************************)
(* State                                                                   *)
(***************************************************************************)

\* The orchestrator's state.
VARIABLES
    runs,       \* number of pipeline runs started on the work directory
    pc,         \* "idle", the stage about to be entered, "done" or "failed"
    skip,       \* stage -> its skip flag
    antibody,   \* [name, type, keys, pdb_exists]
    temp_dir,   \* config["paths"]["temp_dir"]: the work directory
    calls,      \* the stage functions invoked in this run, in order
    locals,     \* structure_files, simulation_result, descriptor_result,
                \* inference_result of run_inference_pipeline
    result,     \* the dictionary the run returned, or NoValue
    error,      \* the exception the run raised to its caller, or NoError
    cwd,        \* the process working directory
    disk,       \* the files of the work directory
    owner       \* shared file of the work directory -> the antibody whose
                \* run wrote it last, or "nobody"

\* The dispatcher's state.
VARIABLES
    artifacts,       \* model name -> state of its predictor artifact on disk
    descriptors_df,  \* the one-row table: [cols, row]
    predictor,       \* "none", "constructed", or "raised" (__init__ raised)
    loaded_models,   \* AbMeltPredictor.loaded_models (set of cached names)
    predictions,     \* result of the last predict_all, or NoCall
    predictAllRaised,\* whether the last predict_all call raised
    nPredictCalls    \* number of predict_all calls made on the predictor

\* The state of steps 4 and 5 of compute_descriptors.
VARIABLES
    agg         \* [pc, args, get_lambda, all_lambda_features, pending,
                \*  descriptor_dict, df, previous, n], or [pc |-> "idle"]

\* The state of the cleanup utility.
VARIABLES
    cleanup     \* the call about to be made, or what it did, or
                \* [pc |-> "idle"]

\* The state of the descriptor extractor.
VARIABLES
    extract     \* [pc, temps, trajectories, index_exists, make_ndx, fails,
                \*  i, k, invoked, xvg_files, exc], or [pc |-> "idle"]

\* The state of _parse_xvg_file.
VARIABLES
    parse       \* [pc, file, next, lists, data], or [pc |-> "idle"]

(***************************************************************************)
(* The dispatcher as a state machine: an AbMeltPredictor is constructed    *)
(* over the artifacts on disk and predict_all is called on a table.        *)
(***************************************************************************)

inferVars == <<artifacts, descriptors_df, predictor, loaded_models,
               predictions, predictAllRaised, nPredictCalls>>

\* Bound on the number of predict_all calls on one predictor.
MaxPredictCalls == 2

\* Row contents the tables of the model are cut from.
ValueProfiles ==
    { [f \in FeatureNames |-> 1],
      [f \in FeatureNames |-> IF f \in Range(ModelFeatures("tm")) THEN 2 ELSE 1] }

\* Every table: any subset of the columns (descriptors_df.columns), its one
\* row filled from one profile.
Tables ==
    { [cols |-> c, row |-> [f \in c |-> p[f]]] :
        c \in SUBSET FeatureNames, p \in ValueProfiles }

\* predictor = AbMeltPredictor()
Construct ==
    /\ predictor = "none"
    /\ predictor' = IF ConstructOk(artifacts) THEN "constructed" ELSE "raised"
    /\ loaded_models' = {}
    /\ UNCHANGED <<artifacts, descriptors_df, predictions, predictAllRaised,
                   nPredictCalls>>
    /\ UNCHANGED <<runs, pc, skip, antibody, temp_dir, calls, locals, result,
                   error, cwd, disk, owner, agg,
                   cleanup, extract, parse>>

\* predictions = predictor.predict_all(descriptors_df)
CallPredictAll ==
    /\ predictor = "constructed"
    /\ nPredictCalls < MaxPredictCalls
    /\ LET r == PredictAll(descriptors_df, artifacts, loaded_models) IN
        /\ predictions' = r.predictions
        /\ predictAllRaised' = r.raised
        /\ loaded_models' = r.loaded
    /\ nPredictCalls' = nPredictCalls + 1
    /\ UNCHANGED <<artifacts, descriptors_df, predictor>>
    /\ UNCHANGED <<runs, pc, skip, antibody, temp_dir, calls, locals, result,
                   error, cwd, disk, owner, agg,
                   cleanup, extract, parse>>

InferNext == Construct \/ CallPredictAll

(***************************************************************************)
(* The orchestrator: run_inference_pipeline                                *)
(***************************************************************************)

pipeVars == <<runs, pc, skip, antibody, temp_dir, calls, locals, result,
              error, cwd, disk, owner, artifacts>>

\* The dispatcher's own variables, which the orchestrator does not use.
dispatcherVars == <<descriptors_df, predictor, loaded_models, predictions,
                    predictAllRaised, nPredictCalls>>

vars == <<pipeVars, dispatcherVars, agg, cleanup, extract, parse>>

\* Bound on the number of runs on one work directory.
MaxRuns == 2

AntibodyNames == {"mAb1", "mAb2"}

AntibodyTypes == {"pdb", "sequences", "fasta"}

\* The antibody dictionaries a run can be given: a pdb antibody whose
\* pdb_file exists or not, a sequences antibody with or without light_chain,
\* an antibody of an unsupported type; the second name comes with a valid
\* pdb antibody only.
AntibodyInputs ==
    { a \in [name : AntibodyNames, type : AntibodyTypes,
             keys : SUBSET {"heavy_chain", "light_chain", "pdb_file"},
             pdb_exists : BOOLEAN] :
        /\ \/ a.type = "pdb" /\ a.keys = {"pdb_file"}
           \/ /\ a.type = "sequences" /\ ~a.pdb_exists
              /\ a.keys \in {{"heavy_chain", "light_chain"}, {"heavy_chain"}}
           \/ a.type = "fasta" /\ a.keys = {} /\ ~a.pdb_exists
        /\ a.name # "mAb1" => (a.type = "pdb" /\ a.pdb_exists) }

\* What the structure step finds outside the pipeline: whether the copy or
\* the structure generation raises, and the chains of the structure.
StructureEnvs ==
    { e \in [tool : {"ok", "error"}, chains : 0..2] :
        e.tool = "error" => e.chains = 0 }

\* The files of the work directory that are not named after an antibody.
SharedFiles == {"trajectories", "csv", "pkl"}

\* Final path components the configured work directory can have.
TempDirs == {"temp", "mAb1"}

\* Tables the aggregation of a run can come out with.
PipelineTables ==
    { t \in Tables :
        /\ t.row = [f \in t.cols |-> 1]
        /\ t.cols \in {FeatureNames, FeatureNames \ {"gyr_cdrs_Rg_std_400"}} }

\* Predictor artifacts a run can find: all usable, or one missing.
PipelineArtifacts ==
    { [m \in ModelSet |-> "ok"],
      [m \in ModelSet |-> IF m = "tagg" THEN "missing" ELSE "ok"] }

EmptyDisk ==
    [pdb |-> {}, trajectories |-> NoTrajectories, csv |-> NoFile, pkl |-> NoFile,
     predictions |-> [n \in AntibodyNames \cup TempDirs |-> NoFile]]

UnsetLocals ==
    [structure_files |-> NoValue, simulation_result |-> NoValue,
     descriptor_result |-> NoValue, inference_result |-> NoValue]

NobodyOwns == [a \in SharedFiles |-> "nobody"]

\* The shared files a stage function writes: the trajectory files by
\* _process_trajectories, descriptors.csv and descriptors.pkl by the save
\* block of compute_descriptors.
WritesOf(stage, fn, env, r, before) ==
    IF fn # "executor" THEN {}
    ELSE CASE stage = "simulation" ->
                IF r.ok THEN {"trajectories"} ELSE {}
           [] stage = "descriptors" ->
                IF ~r.ok THEN {}
                ELSE {f \in {"csv", "pkl"} :
                        \/ r.disk[f] # before[f]
                        \/ env.save = "both"
                        \/ env.save = "pkl_failed" /\ f = "csv"}
           [] OTHER -> {}

\* The shared files a stage function reads: the trajectory files by
\* _compute_gromacs_descriptors and by the simulation loader, the persisted
\* table by load_existing_descriptors.
ReadsOf(stage, fn, before) ==
    CASE stage = "simulation" /\ fn = "loader" -> {"trajectories"}
      [] stage = "descriptors" /\ fn = "executor" -> {"trajectories"}
      [] stage = "descriptors" /\ fn = "loader" ->
            {"csv"} \cup (IF ReadCsv(before.csv).ok THEN {} ELSE {"pkl"})
      [] OTHER -> {}

\* Whether a shared file is there.
Exists(f, d) ==
    IF f = "trajectories" THEN d.trajectories # NoTrajectories ELSE d[f] # NoFile

\* The local variable a stage's result is bound to.
LocalOf(stage) ==
    CASE stage = "structure"   -> "structure_files"
      [] stage = "simulation"  -> "simulation_result"
      [] stage = "descriptors" -> "descriptor_result"
      [] stage = "inference"   -> "inference_result"

\* The descriptors step reading the flag of the step above it.
UseLoaderCopyPasted(stage, flags) ==
    IF stage = "descriptors" THEN flags["simulation"] ELSE flags[stage]

\* if skip_structure / skip_md / skip_descriptors / skip_inference
UseLoader(stage, flags) == flags[stage]

\* An orchestrator that enters inference right after the simulation.
StageAfterSkipping(stage) ==
    CASE stage = "structure"   -> "simulation"
      [] stage = "simulation"  -> "inference"
      [] stage = "descriptors" -> "inference"
      [] stage = "inference"   -> "done"

\* The step that follows a completed stage in the try block.
StageAfter(stage) ==
    CASE stage = "structure"   -> "simulation"
      [] stage = "simulation"  -> "descriptors"
      [] stage = "descriptors" -> "inference"
      [] stage = "inference"   -> "done"

\* An except block that returns a dictionary instead of re-raising.
PipelineExceptReturnsPartial(exc, partial) ==
    [error |-> NoError,
     result |-> [status |-> "failed", structure_files |-> partial.structure_files,
                 simulation_result |-> partial.simulation_result,
                 descriptor_result |-> partial.descriptor_result,
                 inference_result |-> partial.inference_result]]

\* except Exception as e: logging.error(...); raise
PipelineExcept(exc, partial) == [error |-> exc, result |-> NoValue]

\* The dictionary a run returns after its fourth stage.
SuccessResult(l) ==
    [status |-> "success", structure_files |-> l.structure_files,
     simulation_result |-> l.simulation_result,
     descriptor_result |-> l.descriptor_result,
     inference_result |-> l.inference_result]

\* Steps 4 and 5 of compute_descriptors are not running.
AggIdle == [pc |-> "idle"]

\* The cleanup utility is not running.
CleanupIdle == [pc |-> "idle"]

\* The descriptor extractor is not running.
ExtractIdle == [pc |-> "idle"]

\* _parse_xvg_file is not running.
ParseIdle == [pc |-> "idle"]

PipelineInit ==
    /\ runs = 0
    /\ pc = "idle"
    /\ skip = [st \in StageSet |-> FALSE]
    /\ antibody \in AntibodyInputs
    /\ temp_dir \in TempDirs
    /\ calls = << >>
    /\ locals = UnsetLocals
    /\ result = NoValue
    /\ error = NoError
    /\ cwd = LaunchDir
    /\ disk = EmptyDisk
    /\ owner = NobodyOwns
    /\ artifacts \in PipelineArtifacts
    /\ agg = AggIdle
    /\ cleanup = CleanupIdle
    /\ extract = ExtractIdle
    /\ parse = ParseIdle

\* run_inference_pipeline is called (a new process, started in LaunchDir)
\* for an antibody, with the same configuration as the runs before it.
StartRun ==
    /\ pc \in {"idle", "done", "failed"}
    /\ runs < MaxRuns
    /\ runs' = runs + 1
    /\ antibody' \in AntibodyInputs
    /\ skip' \in [StageSet -> BOOLEAN]
    /\ pc' = "structure"
    /\ calls' = << >>
    /\ locals' = UnsetLocals
    /\ result' = NoValue
    /\ error' = NoError
    /\ cwd' = LaunchDir
    /\ UNCHANGED <<temp_dir, disk, owner, artifacts>>
    /\ UNCHANGED <<dispatcherVars, agg, cleanup, extract, parse>>

\* One step of the try block: stage function fn was called with arg, met env
\* outside the pipeline, and did r.
Step(stage, fn, arg, env, r) ==
    LET l == [locals EXCEPT ![LocalOf(stage)] = r.value]
        h == PipelineExcept(r.exc, locals)
        written == WritesOf(stage, fn, env, r, disk)
        touched == {f \in ReadsOf(stage, fn, disk) \cup written : Exists(f, disk)}
    IN /\ calls' = Append(calls, [stage |-> stage, fn |-> fn, arg |-> arg,
                                  env |-> env,
                                  ok |-> r.ok, value |-> r.value,
                                  exc |-> r.exc, cwd_before |-> cwd,
                                  cwd_after |-> r.cwd,
                                  disk_before |-> disk, disk_after |-> r.disk,
                                  foreign |-> {f \in touched :
                                      owner[f] \notin {"nobody", antibody.name}}])
       /\ cwd' = r.cwd
       /\ disk' = r.disk
       /\ owner' = [f \in SharedFiles |->
                       IF f \in written THEN antibody.name ELSE owner[f]]
       /\ IF r.ok
          THEN /\ locals' = l
               /\ pc' = StageAfter(stage)
               /\ error' = NoError
               /\ result' = IF StageAfter(stage) = "done"
                            THEN SuccessResult(l) ELSE NoValue
          ELSE /\ locals' = locals
               /\ pc' = "failed"
               /\ error' = h.error
               /\ result' = h.result
       /\ UNCHANGED <<runs, skip, antibody, temp_dir, artifacts>>
       /\ UNCHANGED <<dispatcherVars, agg, cleanup, extract, parse>>

\* What the descriptor step finds outside the pipeline.
DescriptorEnvs ==
    { e \in [body : {"chdir_error", "tool_error", "ok"},
             df : PipelineTables,
             save : {"both", "pkl_failed", "csv_failed"},
             truncated : BOOLEAN] :
        /\ e.save = "both" => ~e.truncated
        /\ e.body # "ok" =>
              e.df.cols = FeatureNames /\ e.save = "both" }

\* Step 1: structure preparation.
StructureStage ==
    /\ pc = "structure"
    /\ IF UseLoader("structure", skip)
       THEN Step("structure", "loader", [antibody |-> antibody, temp_dir |-> temp_dir],
                 NoValue,
                 load_existing_structure_files(antibody, temp_dir, cwd, disk))
       ELSE \E env \in StructureEnvs :
            Step("structure", "executor", [antibody |-> antibody, temp_dir |-> temp_dir],
                 env,
                 prepare_structure(antibody, temp_dir, cwd, disk, env))

\* Step 2: MD simulation.
SimulationStage ==
    /\ pc = "simulation"
    /\ IF UseLoader("simulation", skip)
       THEN Step("simulation", "loader", locals.structure_files, NoValue,
                 load_existing_simulation_results(locals.structure_files, cwd, disk))
       ELSE \E env \in {"chdir_error", "tool_error", "ok"} :
            Step("simulation", "executor", locals.structure_files, env,
                 run_md_simulation(locals.structure_files, cwd, disk, env))

\* Step 3: descriptor computation.
DescriptorStage ==
    /\ pc = "descriptors"
    /\ IF UseLoader("descriptors", skip)
       THEN Step("descriptors", "loader", locals.simulation_result, NoValue,
                 load_existing_descriptors(locals.simulation_result, cwd, disk))
       ELSE \E env \in DescriptorEnvs :
            Step("descriptors", "executor", locals.simulation_result, env,
                 compute_descriptors(locals.simulation_result, cwd, disk, env))

\* Step 4: model inference.
InferenceStage ==
    /\ pc = "inference"
    /\ IF UseLoader("inference", skip)
       THEN LET work_dir == locals.descriptor_result.work_dir IN
            Step("inference", "loader",
                 [work_dir |-> work_dir, antibody_name |-> antibody.name],
                 NoValue,
                 load_existing_predictions(work_dir, antibody.name, cwd, disk))
       ELSE \E env \in {"saved", "save_failed"} :
            Step("inference", "executor", locals.descriptor_result, env,
                 run_model_inference(locals.descriptor_result, artifacts, cwd, disk, env))

PipelineNext ==
    \/ StartRun
    \/ StructureStage
    \/ SimulationStage
    \/ DescriptorStage
    \/ InferenceStage

\* The dispatcher's own variables are not used by the orchestrator.
DispatcherIdle ==
    /\ descriptors_df = [cols |-> {}, row |-> [f \in {} |-> 1]]
    /\ predictor = "none"
    /\ loaded_models = {}
    /\ predictions = NoCall
    /\ predictAllRaised = FALSE
    /\ nPredictCalls = 0

Init == PipelineInit /\ DispatcherIdle

Next == PipelineNext

Spec == Init /\ [][Next]_vars


InferInit ==
    /\ artifacts \in [ModelSet -> ArtifactStates]
    /\ descriptors_df \in Tables
    /\ predictor = "none"
    /\ loaded_models = {}
    /\ predictions = NoCall
    /\ predictAllRaised = FALSE
    /\ nPredictCalls = 0
    \* run_inference_pipeline is not running
    /\ runs = 0
    /\ pc = "idle"
    /\ skip = [st \in StageSet |-> FALSE]
    /\ antibody = [name |-> "mAb1", type |-> "pdb", keys |-> {"pdb_file"},
                   pdb_exists |-> TRUE]
    /\ temp_dir = "temp"
    /\ calls = << >>
    /\ locals = UnsetLocals
    /\ result = NoValue
    /\ error = NoError
    /\ cwd = LaunchDir
    /\ disk = EmptyDisk
    /\ owner = NobodyOwns
    /\ agg = AggIdle
    /\ cleanup = CleanupIdle
    /\ extract = ExtractIdle
    /\ parse = ParseIdle

SpecInfer == InferInit /\ [][InferNext]_vars

(***************************************************************************)
(* The descriptor step on a work directory as it can be found              *)
(***************************************************************************)

\* Trajectory files a work directory can hold when step 3 is entered: all of
\* them, or one temperature short of a file, or of all its files.
TrajectoryDirs ==
    { CompleteTrajectories,
      [CompleteTrajectories EXCEPT !["400"] = {"gro", "tpr"}],
      [CompleteTrajectories EXCEPT !["350"] = {"xtc", "tpr"}],
      [CompleteTrajectories EXCEPT !["300"] = {"xtc", "gro"}],
      [CompleteTrajectories EXCEPT !["350"] = {}] }

\* Conditions descriptors.csv and descriptors.pkl can be in: not there,
\* unparseable, or holding a table.
PersistedCsvs == {NoFile, Garbage} \cup {FileOf(ToCsv(t)) : t \in PipelineTables}

PersistedPkls == {NoFile, Garbage} \cup {FileOf(PickleDump(t)) : t \in PipelineTables}

\* Work directories step 3 can be entered on: files are written, truncated
\* and removed in the shared work directory by earlier runs and outside them.
WorkDirs ==
    { [EmptyDisk EXCEPT !.pdb = {"mAb1"}, !.trajectories = tr, !.csv = c, !.pkl = p] :
        tr \in TrajectoryDirs, c \in PersistedCsvs, p \in PersistedPkls }

\* run_inference_pipeline about to enter step 3 with the simulation result
\* of the configured temperatures.
DescriptorsInit ==
    /\ runs = 1
    /\ pc = "descriptors"
    /\ skip \in {f \in [StageSet -> BOOLEAN] : f["structure"] /\ f["simulation"]}
    /\ antibody = [name |-> "mAb1", type |-> "pdb", keys |-> {"pdb_file"},
                   pdb_exists |-> TRUE]
    /\ temp_dir = "temp"
    /\ calls = << >>
    /\ locals = [UnsetLocals EXCEPT
                    !.structure_files = [pdb_file |-> <<"temp", "mAb1">>,
                                         work_dir |-> "temp"],
                    !.simulation_result = [trajectory_files |-> Temperatures,
                                           work_dir |-> "temp"]]
    /\ result = NoValue
    /\ error = NoError
    /\ cwd = LaunchDir
    /\ disk \in WorkDirs
    /\ owner = NobodyOwns
    /\ artifacts = [m \in ModelSet |-> "ok"]
    /\ descriptors_df = [cols |-> {}, row |-> [f \in {} |-> 1]]
    /\ predictor = "none"
    /\ loaded_models = {}
    /\ predictions = NoCall
    /\ predictAllRaised = FALSE
    /\ nPredictCalls = 0
    /\ agg = AggIdle
    /\ cleanup = CleanupIdle
    /\ extract = ExtractIdle
    /\ parse = ParseIdle

DescriptorsNext == DescriptorStage \/ InferenceStage

SpecDescriptors == DescriptorsInit /\ [][DescriptorsNext]_vars

(***************************************************************************)
(* Steps 4 and 5 of compute_descriptors: the lambda features and the       *)
(* aggregation of everything computed into the one-row table               *)
(***************************************************************************)

\* Bound on the number of aggregations over one set of inputs.
MaxAggregations == 2

\* 100 equal lines followed by 2 equal lines.
Series(first, last) == <<[n |-> 100, row |-> first], [n |-> 2, row |-> last]>>

\* The .xvg files the work directory can hold when step 5 is entered:
\* bonds and bonds_lh with one or two data columns, the other families,
\* a file of no family, a file of no temperature, a short file; a potential
\* file is a radial profile, of lines "radius potential" or of three columns.
XvgPool ==
    { XvgFile(<<"bonds", "300">>, 2, Series(<<4>>, <<6>>)),
      XvgFile(<<"bonds", "300">>, 3, Series(<<4, 7>>, <<6, 9>>)),
      XvgFile(<<"bonds", "lh", "300">>, 2, Series(<<1>>, <<3>>)),
      XvgFile(<<"bonds", "lh", "300">>, 3, Series(<<1, 2>>, <<3, 2>>)),
      XvgFile(<<"gyr", "cdrs", "300">>, 5, Series(<<2, 1, 1, 1>>, <<4, 1, 3, 1>>)),
      XvgFile(<<"rmsf", "cdrl1", "350">>, 2, <<[n |-> 3, row |-> <<2>>]>>),
      XvgFile(<<"rmsd", "300">>, 2, <<[n |-> 50, row |-> <<1>>]>>),
      XvgFile(<<"sasa", "cdrl1", "350">>, 2, Series(<<5>>, <<7>>)),
      XvgFile(<<"potential", "cdrs", "300">>, 3,
              <<[n |-> 100, row |-> <<1, 5>>], [n |-> 3, row |-> <<2, 6>>],
                [n |-> 3, row |-> <<3, 8>>]>>),
      XvgFile(<<"potential", "cdrl1", "300">>, 2,
              <<[n |-> 2, row |-> <<1>>], [n |-> 1, row |-> <<4>>],
                [n |-> 5, row |-> <<9>>]>>),
      XvgFile(<<"dipole", "300">>, 4, Series(<<1, 2, 3>>, <<1, 2, 5>>)),
      XvgFile(<<"dipole", "300">>, 5, Series(<<1, 2, 3, 4>>, <<1, 2, 5, 6>>)),
      XvgFile(<<"charge", "cdrs", "300">>, 3, Series(<<1, 1>>, <<1, 1>>)),
      XvgFile(<<"eigenval">>, 2, Series(<<1>>, <<1>>)) }

\* Bound on the number of .xvg files of a work directory.
MaxXvgFiles == 3

\* glob.glob("*.xvg") on a work directory: files of different names.
XvgDirs ==
    { dir \in SUBSET XvgPool :
        /\ Cardinality(dir) <= MaxXvgFiles
        /\ \A f, g \in dir : f.name = g.name => f = g }

\* A directory of one file.
OneFileDir == { XvgFile(<<"sasa", "cdrl1", "350">>, 2, Series(<<5>>, <<7>>)) }

\* The temperature lists and equilibration times (ns) of the model.
AggTemps == { <<"300">>, <<"300", "350">> }

EqTimes == {0, 1}

\* The S2 values of a temperature: none, or those of two residues.
S2Values == { Dict(<< >>), Dict(<<1, 3>>) }

\* master_s2_dicts: every block length maps every temperature of temps.
MasterS2Dicts(temps) ==
    [Range(BlockLengths) -> [{IntOf(temps[j]) : j \in 1..Len(temps)} -> S2Values]]

\* sasa_dict: the statistics of the first k temperatures of temps.
SasaDicts(temps) ==
    { [t \in {temps[j] : j \in 1..k} |->
         [key \in Range(SasaKeys) |-> Len(key[1]) * (IntOf(t) \div 50)] ] :
        k \in 0..Len(temps) }

\* sconf_<T>.log: no log, or a log of the first temperature with its two
\* entropy lines.
EntropyLogs(temps) ==
    { [t \in {} |-> << >>],
      [t \in {temps[1]} |-> <<[kind |-> "schlitter", entropy |-> 9],
                              [kind |-> "quasiharmonic", entropy |-> 8]>>] }

\* The inputs of steps 4 and 5 with nothing computed outside the .xvg files.
DefaultArgs(temps, eq_time, files) ==
    [temps |-> temps, eq_time |-> eq_time, compute_lambda |-> TRUE,
     core_surface_k |-> 20, block_lengths |-> BlockLengths,
     master_s2_dicts |->
        [b \in Range(BlockLengths) |->
            [t \in {IntOf(temps[j]) : j \in 1..Len(temps)} |-> Dict(<< >>)]],
     sasa_dict |-> [t \in {} |-> 0],
     logs |-> [t \in {} |-> << >>],
     files |-> files]

\* The inputs of the model: every directory of .xvg files with nothing
\* else computed, and everything else computed over one directory.
AggArgs ==
    { DefaultArgs(temps, eq_time, files) :
        temps \in AggTemps, eq_time \in EqTimes, files \in XvgDirs }
    \cup
    UNION { { [DefaultArgs(temps, eq_time, OneFileDir) EXCEPT
                 !.compute_lambda = compute_lambda,
                 !.master_s2_dicts = master,
                 !.sasa_dict = sasa,
                 !.logs = logs] :
               compute_lambda \in BOOLEAN, master \in MasterS2Dicts(temps),
               sasa \in SasaDicts(temps), logs \in EntropyLogs(temps) } :
            temps \in AggTemps, eq_time \in EqTimes }

\* What order_lambda and get_lambda do for the block lengths they are called
\* for: raise, or return dictionaries over the residues that two
\* temperatures share, which may be none.
GetLambdaOutcomes(args) ==
    { o \in [Range(args.block_lengths) ->
                { [tag |-> "not called"], [tag |-> "raise"],
                  [tag |-> "ok", lambda |-> Dict(<<2, 4>>), r |-> Dict(<<1, 1>>)],
                  [tag |-> "ok", lambda |-> Dict(<< >>), r |-> Dict(<< >>)] }] :
        \A b \in Range(args.block_lengths) :
            o[b].tag = "not called" <=>
                ~ ( /\ Len(args.temps) >= 2
                    /\ args.compute_lambda
                    /\ Cardinality({t \in DOMAIN args.master_s2_dicts[b] :
                                      Truthy(args.master_s2_dicts[b][t])}) >= 2 ) }

\* all_lambda_features = _compute_lambda_features(...), or None
ComputeLambda ==
    /\ agg.pc = "lambda"
    /\ \E get_lambda \in GetLambdaOutcomes(agg.args) :
        agg' = [agg EXCEPT
                  !.pc = "xvg",
                  !.get_lambda = get_lambda,
                  !.all_lambda_features =
                      ComputeLambdaFeatures(agg.args.master_s2_dicts, agg.args.temps,
                                            agg.args.compute_lambda, get_lambda),
                  !.pending = agg.args.files,
                  !.descriptor_dict = EmptyDict]
    /\ UNCHANGED <<pipeVars, dispatcherVars, cleanup, extract, parse>>

\* One pass of `for xvg_file in xvg_files`: glob returns the files in an
\* order of its own, so any file not yet seen can be the next.
AggregateNextXvgFile ==
    /\ agg.pc = "xvg"
    /\ \E file \in agg.pending :
        agg' = [agg EXCEPT
                  !.pending = agg.pending \ {file},
                  !.descriptor_dict =
                      AggregateXvgFile(agg.descriptor_dict, file,
                                       agg.args.temps, agg.args.eq_time)]
    /\ UNCHANGED <<pipeVars, dispatcherVars, cleanup, extract, parse>>

\* The rest of _aggregate_descriptors_to_dataframe, and its return.
FinishAggregation ==
    /\ agg.pc = "xvg"
    /\ agg.pending = {}
    /\ agg' = [agg EXCEPT
                 !.pc = "done",
                 !.df = AggregateComputed(agg.descriptor_dict, agg.args,
                                          agg.all_lambda_features)]
    /\ UNCHANGED <<pipeVars, dispatcherVars, cleanup, extract, parse>>

\* _aggregate_descriptors_to_dataframe is called again with the arguments
\* of the call before.
AggregateAgain ==
    /\ agg.pc = "done"
    /\ agg.n < MaxAggregations
    /\ agg' = [agg EXCEPT
                 !.pc = "xvg",
                 !.n = agg.n + 1,
                 !.previous = agg.df,
                 !.df = NoValue,
                 !.pending = agg.args.files,
                 !.descriptor_dict = EmptyDict]
    /\ UNCHANGED <<pipeVars, dispatcherVars, cleanup, extract, parse>>

\* compute_descriptors about to enter its step 4.
AggInit ==
    /\ agg \in { [pc |-> "lambda", args |-> args, n |-> 1,
                  get_lambda |-> NoValue, all_lambda_features |-> None,
                  pending |-> {}, descriptor_dict |-> EmptyDict,
                  df |-> NoValue, previous |-> NoValue] : args \in AggArgs }
    \* run_inference_pipeline and the dispatcher are not the subject
    /\ runs = 1
    /\ pc = "descriptors"
    /\ skip = [st \in StageSet |-> FALSE]
    /\ antibody = [name |-> "mAb1", type |-> "pdb", keys |-> {"pdb_file"},
                   pdb_exists |-> TRUE]
    /\ temp_dir = "temp"
    /\ calls = << >>
    /\ locals = UnsetLocals
    /\ result = NoValue
    /\ error = NoError
    /\ cwd = LaunchDir
    /\ disk = EmptyDisk
    /\ owner = NobodyOwns
    /\ artifacts = [m \in ModelSet |-> "ok"]
    /\ descriptors_df = [cols |-> {}, row |-> [f \in {} |-> 1]]
    /\ predictor = "none"
    /\ loaded_models = {}
    /\ predictions = NoCall
    /\ predictAllRaised = FALSE
    /\ nPredictCalls = 0
    /\ cleanup = CleanupIdle
    /\ extract = ExtractIdle
    /\ parse = ParseIdle

AggNext ==
    \/ ComputeLambda
    \/ AggregateNextXvgFile
    \/ FinishAggregation
    \/ AggregateAgain

SpecAgg == AggInit /\ [][AggNext]_vars

(***************************************************************************)
(* cleanup_temp_directory on a work directory as it can be found           *)
(***************************************************************************)

\* Files a work directory can hold: inputs of the resume paths, outputs,
\* intermediates of the simulation, a backup, a file of no pattern.
CleanupPool ==
    { "mAb1.pdb", "md_final_300.xtc", "descriptors.csv", "bonds_lh_350.xvg",
      "covar_300.xvg", "sconf_300.log", "mAb1_predictions.csv",
      "order_s2_300K_25_20.csv", "order_lambda_25_20.csv",
      "md_300.xtc", "nvt_300.cpt", "#topol.top.1#", "notes.txt" }

\* Bound on the number of files of a work directory.
MaxDirFiles == 3

CleanupDirs == {dir \in SUBSET CleanupPool : Cardinality(dir) <= MaxDirFiles}

\* The temperature lists a cleanup can be given.
CleanupTemperatures == { << >>, <<"300">>, <<"300", "350">> }

\* A call of cleanup_temp_directory about to be made: its arguments, the
\* files of work_dir (exists: whether work_dir is there at all) and what
\* Path.unlink does in it (it can only fail where it is called).
CleanupCalls ==
    { c \in [pc : {"called"}, dir : CleanupDirs, exists : BOOLEAN,
             antibody_name : {"mAb1"}, temperatures : CleanupTemperatures,
             dry_run : BOOLEAN, keep_order_params : BOOLEAN,
             unlink : {"ok", "error"}] :
        /\ ~c.exists => c.dir = {}
        /\ c.unlink = "error" => (c.exists /\ ~c.dry_run) }

\* stats = cleanup_temp_directory(work_dir, antibody_name, temperatures,
\*                                dry_run, keep_order_params)
CleanupTempDirectory ==
    /\ cleanup.pc = "called"
    /\ LET c == cleanup
           to_delete == ToDelete(c.dir, c.antibody_name, c.temperatures,
                                 c.keep_order_params)
           deleted == IF c.dry_run \/ c.unlink = "error" THEN {} ELSE to_delete
       IN  IF ~c.exists
           THEN cleanup' = [pc |-> "raised", call |-> c, dir |-> c.dir,
                            exc |-> Exc("ValueError", "Work directory does not exist"),
                            stats |-> NoValue]
           ELSE cleanup' =
                   [pc |-> "returned", call |-> c, dir |-> c.dir \ deleted,
                    exc |-> NoError,
                    stats |->
                      [total_files |-> Cardinality(c.dir),
                       required_files |->
                          Cardinality(get_required_files(c.dir, c.antibody_name,
                                                         c.temperatures)),
                       files_to_delete |-> Cardinality(to_delete),
                       deleted |-> IF c.dry_run THEN NoValue
                                   ELSE [count |-> Cardinality(deleted)],
                       failed |-> IF c.dry_run THEN NoValue
                                  ELSE [count |-> Cardinality(to_delete \ deleted)]]]
    /\ UNCHANGED <<pipeVars, dispatcherVars, agg, extract, parse>>

CleanupInit ==
    /\ cleanup \in CleanupCalls
    \* run_inference_pipeline, the dispatcher and the aggregation are not
    \* running
    /\ runs = 0
    /\ pc = "idle"
    /\ skip = [st \in StageSet |-> FALSE]
    /\ antibody = [name |-> "mAb1", type |-> "pdb", keys |-> {"pdb_file"},
                   pdb_exists |-> TRUE]
    /\ temp_dir = "temp"
    /\ calls = << >>
    /\ locals = UnsetLocals
    /\ result = NoValue
    /\ error = NoError
    /\ cwd = LaunchDir
    /\ disk = EmptyDisk
    /\ owner = NobodyOwns
    /\ artifacts = [m \in ModelSet |-> "ok"]
    /\ descriptors_df = [cols |-> {}, row |-> [f \in {} |-> 1]]
    /\ predictor = "none"
    /\ loaded_models = {}
    /\ predictions = NoCall
    /\ predictAllRaised = FALSE
    /\ nPredictCalls = 0
    /\ agg = AggIdle
    /\ extract = ExtractIdle
    /\ parse = ParseIdle

CleanupNext == CleanupTempDirectory

SpecCleanup == CleanupInit /\ [][CleanupNext]_vars

(***************************************************************************)
(* _compute_gromacs_descriptors, one external invocation at a time         *)
(***************************************************************************)

\* The temperature lists of an extraction.
ExtractTemps == { <<"300">>, <<"300", "350">> }

\* The final trajectory files an extraction can find.
ExtractTrajectories ==
    { CompleteTrajectories, [CompleteTrajectories EXCEPT !["350"] = {"gro", "tpr"}] }

\* A call of _compute_gromacs_descriptors about to be made: its temps, the
\* trajectory files and whether index.ndx is in the work directory, whether
\* canonical_index/make_ndx can make one ("ok" or "error"), and the one
\* invocation that fails of its own, <<temperature number, invocation
\* number>>, or << >> for none.
ExtractCalls ==
    { [pc |-> "loop", temps |-> temps, trajectories |-> tr,
       index_exists |-> ix.exists, make_ndx |-> ix.make_ndx, fails |-> fails,
       i |-> 1, k |-> 0, invoked |-> {}, xvg_files |-> << >>, exc |-> NoError] :
        temps \in ExtractTemps,
        tr \in ExtractTrajectories,
        ix \in { [exists |-> TRUE, make_ndx |-> "ok"],
                 [exists |-> FALSE, make_ndx |-> "ok"],
                 [exists |-> FALSE, make_ndx |-> "error"] },
        fails \in { << >> } \cup
                  ( {1, 2} \X (1..Len(Invocations("300"))) ) }

\* The head of the loop over temps: the required files are checked and a
\* missing index file is made again if it can be.
BeginTemperature ==
    /\ extract.pc = "loop"
    /\ extract.k = 0
    /\ extract.i <= Len(extract.temps)
    /\ LET check == RequiredFilesCheck(extract.trajectories[extract.temps[extract.i]]) IN
       IF check # "complete"
       THEN extract' = [extract EXCEPT !.pc = "raised",
                                       !.exc = Exc("ValueError", check)]
       ELSE extract' = [extract EXCEPT
                          !.k = 1,
                          !.index_exists = extract.index_exists
                                           \/ extract.make_ndx = "ok"]
    /\ UNCHANGED <<pipeVars, dispatcherVars, agg, cleanup, parse>>

\* The next external invocation of the temperature: it runs, or it raises
\* (of its own, or for want of the index file it is given) and the try
\* block around it decides.
InvokeTool ==
    /\ extract.pc = "loop"
    /\ extract.k >= 1
    /\ LET temp == extract.temps[extract.i]
           invocations == Invocations(temp)
           k == extract.k
           inv == invocations[k]
           raises == \/ extract.fails = <<extract.i, k>>
                     \/ inv.index /\ ~extract.index_exists
           next == IF raises THEN AfterCaught(invocations, k) ELSE k + 1
       IN  IF raises /\ inv.guard = "outer"
           THEN extract' = [extract EXCEPT !.pc = "raised",
                                           !.exc = Exc("Exception", "<external>")]
           ELSE extract' =
                  [extract EXCEPT
                     !.invoked = IF raises THEN @ ELSE @ \cup {<<temp, k>>},
                     !.xvg_files = IF raises \/ inv.output = "" THEN @
                                   ELSE Append(@, inv.output),
                     !.i = IF next > Len(invocations) THEN @ + 1 ELSE @,
                     !.k = IF next > Len(invocations) THEN 0 ELSE next]
    /\ UNCHANGED <<pipeVars, dispatcherVars, agg, cleanup, parse>>

\* return xvg_files
ReturnXvgFiles ==
    /\ extract.pc = "loop"
    /\ extract.k = 0
    /\ extract.i > Len(extract.temps)
    /\ extract' = [extract EXCEPT !.pc = "returned"]
    /\ UNCHANGED <<pipeVars, dispatcherVars, agg, cleanup, parse>>

ExtractInit ==
    /\ extract \in { c \in ExtractCalls :
                       c.fails = << >> \/ c.fails[1] <= Len(c.temps) }
    \* run_inference_pipeline is in its step 3; the dispatcher, the
    \* aggregation and the cleanup utility are not running
    /\ runs = 1
    /\ pc = "descriptors"
    /\ skip = [st \in StageSet |-> FALSE]
    /\ antibody = [name |-> "mAb1", type |-> "pdb", keys |-> {"pdb_file"},
                   pdb_exists |-> TRUE]
    /\ temp_dir = "temp"
    /\ calls = << >>
    /\ locals = UnsetLocals
    /\ result = NoValue
    /\ error = NoError
    /\ cwd = LaunchDir
    /\ disk = EmptyDisk
    /\ owner = NobodyOwns
    /\ artifacts = [m \in ModelSet |-> "ok"]
    /\ descriptors_df = [cols |-> {}, row |-> [f \in {} |-> 1]]
    /\ predictor = "none"
    /\ loaded_models = {}
    /\ predictions = NoCall
    /\ predictAllRaised = FALSE
    /\ nPredictCalls = 0
    /\ agg = AggIdle
    /\ cleanup = CleanupIdle
    /\ parse = ParseIdle

ExtractNext ==
    \/ BeginTemperature
    \/ InvokeTool
    \/ ReturnXvgFiles

SpecExtract == ExtractInit /\ [][ExtractNext]_vars

(***************************************************************************)
(* _parse_xvg_file, one line of the file at a time                         *)
(***************************************************************************)

\* Bound on the number of lines of a file.
MaxXvgLines == 3

\* The lines a file can hold, each with what it is meant to be: a comment,
\* a blank line, or data with its columns.
XvgLinePool ==
    { [text |-> "# 1 2", kind |-> "comment", cols |-> << >>],
      [text |-> "@ s0 1", kind |-> "comment", cols |-> << >>],
      [text |-> "", kind |-> "blank", cols |-> << >>],
      [text |-> "0 7", kind |-> "data", cols |-> <<0, 7>>],
      [text |-> "10  12", kind |-> "data", cols |-> <<10, 12>>],
      [text |-> "0 1 2", kind |-> "data", cols |-> <<0, 1, 2>>],
      [text |-> "0 1 2 3", kind |-> "data", cols |-> <<0, 1, 2, 3>>],
      [text |-> " 10 4 5 6 ", kind |-> "data", cols |-> <<10, 4, 5, 6>>],
      [text |-> "0 1 2 3 4", kind |-> "data", cols |-> <<0, 1, 2, 3, 4>>],
      [text |-> "0 x", kind |-> "other", cols |-> << >>],
      [text |-> "0 1 2 3 4 5", kind |-> "other", cols |-> << >>] }

\* The files of the model: up to MaxXvgLines lines of the pool.
XvgTexts ==
    UNION { [1..n -> XvgLinePool] : n \in 0..MaxXvgLines }

\* One pass of `for line in f`; a float() that raises ends the call with
\* the warning and None.
ReadLine ==
    /\ parse.pc = "reading"
    /\ parse.next <= Len(parse.file)
    /\ LET line == parse.file[parse.next].text IN
       IF ~IsComment(line) /\ FloatsRaise(Split(line))
       THEN parse' = [parse EXCEPT !.pc = "returned", !.data = [tag |-> "None"]]
       ELSE parse' = [parse EXCEPT !.next = @ + 1,
                                   !.lists = ReadXvgLine(@, line)]
    /\ UNCHANGED <<pipeVars, dispatcherVars, agg, cleanup, extract>>

\* The end of the file: the array of the lists is returned, or None.
ReturnArray ==
    /\ parse.pc = "reading"
    /\ parse.next > Len(parse.file)
    /\ parse' = [parse EXCEPT !.pc = "returned", !.data = XvgArray(parse.lists)]
    /\ UNCHANGED <<pipeVars, dispatcherVars, agg, cleanup, extract>>

ParseInit ==
    /\ parse \in { [pc |-> "reading", file |-> file, next |-> 1,
                    lists |-> EmptyLists, data |-> NoValue] : file \in XvgTexts }
    \* nothing else is running
    /\ runs = 1
    /\ pc = "descriptors"
    /\ skip = [st \in StageSet |-> FALSE]
    /\ antibody = [name |-> "mAb1", type |-> "pdb", keys |-> {"pdb_file"},
                   pdb_exists |-> TRUE]
    /\ temp_dir = "temp"
    /\ calls = << >>
    /\ locals = UnsetLocals
    /\ result = NoValue
    /\ error = NoError
    /\ cwd = LaunchDir
    /\ disk = EmptyDisk
    /\ owner = NobodyOwns
    /\ artifacts = [m \in ModelSet |-> "ok"]
    /\ descriptors_df = [cols |-> {}, row |-> [f \in {} |-> 1]]
    /\ predictor = "none"
    /\ loaded_models = {}
    /\ predictions = NoCall
    /\ predictAllRaised = FALSE
    /\ nPredictCalls = 0
    /\ agg = AggIdle
    /\ cleanup = CleanupIdle
    /\ extract = ExtractIdle

ParseNext ==
    \/ ReadLine
    \/ ReturnArray

SpecParse == ParseInit /\ [][ParseNext]_vars

(***************************************************************************)
(* Steps 4 and 5 of compute_descriptors under a configuration, then        *)
(* run_model_inference on the table they return                            *)
(***************************************************************************)

\* The configurations of the model: the temperatures simulated, and the
\* descriptors section (equilibration_time, block_length, core_surface_k,
\* compute_lambda).
Configurations ==
    [ temps : { <<"300", "350", "400">>, <<"350", "400">>, <<"300", "350">>,
                <<"400">>, <<"350">> },
      equilibration_time : {10, 20},
      block_length : { [tag |-> "list", items |-> <<FloatValue(2, 5), IntValue(25)>>],
                       [tag |-> "list", items |-> <<FloatValue(2, 5), FloatValue(25, 0)>>],
                       [tag |-> "float", value |-> FloatValue(2, 5)],
                       [tag |-> "int", value |-> IntValue(25)] },
      core_surface_k : {10, 20},
      compute_lambda : BOOLEAN ]

\* The .xvg files of a temperature the three predictors read: a time series
\* of 2002 equal frames each, and the per-residue rmsf files.
StageFiles(temp) ==
    { XvgFile(<<"rmsf", "cdrs", temp>>, 2, <<[n |-> 3, row |-> <<2>>]>>),
      XvgFile(<<"rmsf", "cdrl1", temp>>, 2, <<[n |-> 3, row |-> <<1>>]>>),
      XvgFile(<<"gyr", "cdrs", temp>>, 5, <<[n |-> 2002, row |-> <<2, 1, 1, 1>>]>>),
      XvgFile(<<"bonds", temp>>, 3, <<[n |-> 2002, row |-> <<4, 7>>]>>) }

\* The inputs of steps 4 and 5 after complete steps 1 to 3 under the
\* configuration: every file, S2 value and SASA statistic of every
\* temperature.
StageArgs(config) ==
    LET temps == config.temps
        block_lengths == BlockLengthsOf(config.block_length)
    IN  [temps |-> temps,
         eq_time |-> config.equilibration_time,
         compute_lambda |-> config.compute_lambda,
         core_surface_k |-> config.core_surface_k,
         block_lengths |-> block_lengths,
         master_s2_dicts |->
            [b \in Range(block_lengths) |->
                [t \in {IntOf(temps[j]) : j \in 1..Len(temps)} |-> Dict(<<1, 3>>)]],
         sasa_dict |->
            [t \in Range(temps) |->
                [key \in Range(SasaKeys) |-> Len(key[1]) * (IntOf(t) \div 50)]],
         logs |-> [t \in {} |-> << >>],
         files |-> UNION {StageFiles(temps[j]) : j \in 1..Len(temps)}]

\* Step 5 as a whole: _aggregate_descriptors_to_dataframe returns the table.
AggregateDescriptorsToDataframe ==
    /\ agg.pc = "xvg"
    /\ agg.pending = agg.args.files
    /\ LET d == AggregateXvgFiles(EmptyDict, agg.args.files, agg.args.temps,
                                  agg.args.eq_time)
       IN  agg' = [agg EXCEPT
                     !.pc = "done",
                     !.pending = {},
                     !.descriptor_dict = d,
                     !.df = AggregateComputed(d, agg.args, agg.all_lambda_features)]
    /\ UNCHANGED <<pipeVars, dispatcherVars, cleanup, extract, parse>>

\* run_model_inference(descriptor_result, config) takes the table of the
\* descriptor stage.
ReceiveDescriptors ==
    /\ agg.pc = "done"
    /\ predictor = "none"
    /\ descriptors_df # DescriptorsTable(agg.df)
    /\ descriptors_df' = DescriptorsTable(agg.df)
    /\ UNCHANGED <<artifacts, predictor, loaded_models, predictions,
                   predictAllRaised, nPredictCalls>>
    /\ UNCHANGED <<pipeVars, agg, cleanup, extract, parse>>

FeaturesInit ==
    /\ agg \in { [pc |-> "lambda", args |-> StageArgs(config), n |-> 1,
                  get_lambda |-> NoValue, all_lambda_features |-> None,
                  pending |-> {}, descriptor_dict |-> EmptyDict,
                  df |-> NoValue, previous |-> NoValue] :
                 config \in Configurations }
    /\ artifacts \in { [m \in ModelSet |-> "ok"],
                       [m \in ModelSet |-> IF m = "tm" THEN "corrupt" ELSE "ok"] }
    /\ descriptors_df = [cols |-> {}, row |-> [f \in {} |-> 1]]
    /\ predictor = "none"
    /\ loaded_models = {}
    /\ predictions = NoCall
    /\ predictAllRaised = FALSE
    /\ nPredictCalls = 0
    \* run_inference_pipeline is between its steps 3 and 4
    /\ runs = 1
    /\ pc = "descriptors"
    /\ skip = [st \in StageSet |-> FALSE]
    /\ antibody = [name |-> "mAb1", type |-> "pdb", keys |-> {"pdb_file"},
                   pdb_exists |-> TRUE]
    /\ temp_dir = "temp"
    /\ calls = << >>
    /\ locals = UnsetLocals
    /\ result = NoValue
    /\ error = NoError
    /\ cwd = LaunchDir
    /\ disk = EmptyDisk
    /\ owner = NobodyOwns
    /\ cleanup = CleanupIdle
    /\ extract = ExtractIdle
    /\ parse = ParseIdle

FeaturesNext ==
    \/ ComputeLambda
    \/ AggregateDescriptorsToDataframe
    \/ ReceiveDescriptors
    \/ Construct
    \/ CallPredictAll

SpecFeatures == FeaturesInit /\ [][FeaturesNext]_vars

(***************************************************************************)
(* Properties of the dispatcher (checked under SpecInfer)                  *)
(***************************************************************************)

\* Some step of predict(m) raises: loading, feature extraction or prediction.
ModelFails(m) ==
    \/ artifacts[m] \in {"missing", "corrupt", "incompatible"}
    \/ MissingFeatures(descriptors_df, m) # {}

\* C5: predict_all never raises; its result has exactly the keys tagg, tm,
\* tmon, each value an array of predictions or None, and a model whose
\* loading, feature extraction or prediction raised is present with None.
C5_PredictAllTotal ==
    nPredictCalls > 0 =>
        /\ ~predictAllRaised
        /\ DOMAIN predictions = ModelSet
        /\ \A m \in ModelSet :
            /\ predictions[m] = None \/ predictions[m].tag = "ndarray"
            /\ ModelFails(m) => predictions[m] = None

\* C5 witness: predict_all returned with one model failed at loading, one at
\* prediction, and one predicted.
C5_Witness ==
    /\ nPredictCalls > 0
    /\ artifacts["tagg"] = "corrupt" /\ predictions["tagg"] = None
    /\ artifacts["tm"] = "incompatible" /\ predictions["tm"] = None
    /\ predictions["tmon"].tag = "ndarray"

\* C6 (as claimed): with exactly one predictor artifact missing, constructing
\* the predictor and calling predict_all does not raise, and the other two
\* models are not blocked by the broken one.
C6_OneMissingArtifactIsolated ==
    (Cardinality(MissingModels(artifacts)) = 1 /\ predictor # "none") =>
        predictor = "constructed"

\* The table with column f added, holding x.
WithFeature(df, f, x) ==
    [cols |-> df.cols \cup {f},
     row |-> [g \in df.cols \cup {f} |-> IF g = f THEN x ELSE df.row[g]]]

\* predict_all's entry for m2 on the table with f added, called on the same
\* predictor or on a fresh one.
SameWithFeature(f, m2) ==
    \A x \in Values, l \in {{}, loaded_models} :
        PredictAll(WithFeature(descriptors_df, f, x), artifacts, l).predictions[m2]
            = predictions[m2]

\* C7 (as claimed): a model lacking a required feature is unavailable, and
\* every other model's entry equals its entry for the table with the missing
\* feature added.
C7_OtherModelsUntouched ==
    nPredictCalls > 0 =>
        \A m \in ModelSet : \A f \in MissingFeatures(descriptors_df, m) :
            /\ predictions[m] = None
            /\ \A m2 \in ModelSet \ {m} : SameWithFeature(f, m2)

\* C7 (amended): a model lacking a required feature is unavailable, and every
\* other model that does not itself require that feature has the entry it
\* has for the table with the missing feature added.
C7_UnaffectedModelsUntouched ==
    nPredictCalls > 0 =>
        \A m \in ModelSet : \A f \in MissingFeatures(descriptors_df, m) :
            /\ predictions[m] = None
            /\ \A m2 \in ModelSet \ {m} :
                f \notin Range(ModelFeatures(m2)) => SameWithFeature(f, m2)

\* C7 witness: only gyr_cdrs_Rg_std_400 is missing; tagg is unavailable and
\* tm and tmon are predicted.
C7_Witness ==
    /\ nPredictCalls > 0
    /\ descriptors_df.cols = FeatureNames \ {"gyr_cdrs_Rg_std_400"}
    /\ predictions["tagg"] = None
    /\ predictions["tm"].tag = "ndarray"
    /\ predictions["tmon"].tag = "ndarray"

(***************************************************************************)
(* Properties of the orchestrator (checked under Spec)                     *)
(***************************************************************************)

LastCall == calls[Len(calls)]

\* C1: the stages are entered in the order structure, simulation,
\* descriptors, inference, each at most once, each only after the stage
\* before it returned, and the run returns status success only after all four
\* returned.
C1_StagesInOrder ==
    /\ Len(calls) <= Len(Stages)
    /\ \A i \in 1..Len(calls) :
        /\ calls[i].stage = Stages[i]
        /\ i < Len(calls) => calls[i].ok
    /\ pc \in StageSet =>
        /\ Len(calls) < Len(Stages)
        /\ pc = Stages[Len(calls) + 1]
        /\ \A i \in 1..Len(calls) : calls[i].ok
    /\ (pc = "done" \/ result # NoValue) =>
        /\ pc = "done"
        /\ result.status = "success"
        /\ Len(calls) = Len(Stages)
        /\ \A i \in 1..Len(calls) : calls[i].ok

\* C1 witness: a run went through its four stages and returned.
C1_Witness ==
    /\ pc = "done"
    /\ Len(calls) = 4
    /\ result.status = "success"

\* Each stage is invoked at most once, through its loader exactly when its
\* own skip flag is set.
LoaderIffOwnFlag ==
    \A i \in 1..Len(calls) :
        /\ calls[i].stage = Stages[i]
        /\ calls[i].fn \in {"loader", "executor"}
        /\ calls[i].fn = "loader" <=> skip[calls[i].stage]

\* C2 (as claimed): each stage is invoked once, through its loader exactly
\* when its own skip flag is set, and what stage i returned is what stage
\* i+1 is passed, unchanged.
C2_LoaderIffFlagAndOutputPassedOn ==
    /\ LoaderIffOwnFlag
    /\ \A i \in 2..Len(calls) : calls[i].arg = calls[i - 1].value

\* C2 (amended): as claimed, except that the inference loader is passed the
\* work_dir of the descriptor result and the antibody name, not the
\* descriptor result.
C2_LoaderIffFlagAndOutputFeedsNext ==
    /\ LoaderIffOwnFlag
    /\ \A i \in 2..Len(calls) :
        IF calls[i].stage = "inference" /\ calls[i].fn = "loader"
        THEN calls[i].arg = [work_dir |-> calls[i - 1].value.work_dir,
                             antibody_name |-> antibody.name]
        ELSE calls[i].arg = calls[i - 1].value

\* C2 witness: a run with only skip_descriptors set returned: the
\* descriptors were loaded, the other three stages executed.
C2_Witness ==
    /\ pc = "done"
    /\ skip = [st \in StageSet |-> st = "descriptors"]
    /\ calls[3].fn = "loader"
    /\ calls[4].fn = "executor"

\* C3: when a stage function raises, no later stage is invoked, the run
\* returns no dictionary, and the exception reaches the caller.
C3_FailureAborts ==
    /\ \A i \in 1..Len(calls) : ~calls[i].ok => i = Len(calls)
    /\ (Len(calls) > 0 /\ ~LastCall.ok) =>
        /\ pc = "failed"
        /\ result = NoValue
        /\ error = LastCall.exc
        /\ error # NoError
    /\ pc = "failed" => (Len(calls) > 0 /\ ~LastCall.ok)

\* C3 witness: the simulation raised after the structure stage returned.
C3_Witness ==
    /\ pc = "failed"
    /\ Len(calls) = 2
    /\ calls[1].ok
    /\ ~calls[2].ok

\* The stage an exception's own text identifies, if any.
StageContext(exc) ==
    CASE exc.message \in {"Unsupported antibody type",
                          "Structure validation failed",
                          "Structure file not found"} -> "structure"
      [] exc.message = "Trajectory files not found" -> "simulation"
      [] exc.message =
            "Descriptor file not found when skipping descriptor computation"
            -> "descriptors"
      [] exc.message \in {"Missing model files",
                          "Predictions file not found"} -> "inference"
      [] OTHER -> "none"

\* C4 (as claimed): the error a failed run surfaces identifies the stage that
\* failed.
C4_ErrorNamesStage ==
    pc = "failed" => StageContext(error) = LastCall.stage

\* C8: every stage function leaves the process working directory as it
\* found it, whether it returned or raised.
C8_CwdRestored ==
    /\ \A i \in 1..Len(calls) : calls[i].cwd_after = calls[i].cwd_before
    /\ cwd = LaunchDir

\* C8 witness: run_md_simulation raised inside its try block, after it had
\* changed into the work directory.
C8_Witness ==
    /\ Len(calls) = 2
    /\ LastCall.stage = "simulation"
    /\ LastCall.fn = "executor"
    /\ ~LastCall.ok
    /\ LastCall.exc = Exc("Exception", "<external>")
    /\ cwd = LaunchDir

\* C9 (as claimed): once compute_descriptors has returned, the table it
\* returned is on disk and load_existing_descriptors returns it.
C9_ComputedDescriptorsResumable ==
    \A i \in 1..Len(calls) :
        (calls[i].stage = "descriptors" /\ calls[i].fn = "executor" /\ calls[i].ok) =>
            LET r == load_existing_descriptors(calls[i].arg, cwd, disk) IN
            /\ r.ok
            /\ r.value.descriptors_df = calls[i].value.descriptors_df

\* C10 (as claimed): once run_model_inference has returned and written its
\* predictions file, load_existing_predictions called with the antibody's
\* name finds that file.
C10_PredictionsFoundByAntibodyName ==
    \A i \in 1..Len(calls) :
        (/\ calls[i].stage = "inference" /\ calls[i].fn = "executor" /\ calls[i].ok
         /\ \E n \in DOMAIN disk.predictions :
                disk.predictions[n] = FileOf(calls[i].value.results)) =>
            LET r == load_existing_predictions(calls[i].value.work_dir,
                                               antibody.name, cwd, disk) IN
            /\ r.ok
            /\ r.value.results = calls[i].value.results

\* C11 (as claimed): for the predictions file run_model_inference wrote, the
\* entry load_existing_predictions rebuilds for a model is None exactly when
\* the entry run_model_inference produced for it was None.
C11_LoadedUnavailableIffComputedUnavailable ==
    \A i \in 1..Len(calls) :
        (/\ calls[i].stage = "inference" /\ calls[i].fn = "executor" /\ calls[i].ok
         /\ disk.predictions[calls[i].value.work_dir] = FileOf(calls[i].value.results)) =>
            LET r == load_existing_predictions(calls[i].value.work_dir,
                                               calls[i].value.work_dir, cwd, disk) IN
            /\ r.ok
            /\ \A m \in ModelSet :
                (r.value.predictions[m] = None) <=> (calls[i].value.predictions[m] = None)


\* The table a persisted file gives back has the columns and values of df.
SameTable(r, df) ==
    /\ r.ok
    /\ r.df.cols = df.cols
    /\ \A f \in df.cols : r.df.row[f] = df.row[f]

C13_NoForeignArtifactTouched ==
    \A i \in 1..Len(calls) : calls[i].foreign = {}

\* C20: prepare_structure raises and returns nothing for invalid input:
\* ValueError for a type that is neither pdb nor sequences, KeyError for a
\* sequences antibody without light_chain, FileNotFoundError for a pdb
\* antibody whose pdb_file does not exist, and an exception when the
\* structure has fewer than two chains.
C20_InvalidStructureInputRaises ==
    \A i \in 1..Len(calls) :
        (calls[i].stage = "structure" /\ calls[i].fn = "executor") =>
            LET a == calls[i].arg.antibody
                raises(type) == /\ ~calls[i].ok
                                /\ calls[i].value = NoValue
                                /\ calls[i].exc.type = type
            IN /\ a.type \notin {"pdb", "sequences"} => raises("ValueError")
               /\ (a.type = "sequences" /\ "light_chain" \notin a.keys) =>
                      raises("KeyError")
               /\ (a.type = "pdb" /\ ~a.pdb_exists) => raises("FileNotFoundError")
               /\ (a.type \in {"pdb", "sequences"} /\ calls[i].env.tool = "ok"
                   /\ calls[i].env.chains < 2) =>
                      (~calls[i].ok /\ calls[i].value = NoValue)

\* C20 witness: a structure with one chain was copied into the work directory
\* and prepare_structure raised at validation.
C20_Witness ==
    /\ Len(calls) = 1
    /\ calls[1].fn = "executor"
    /\ calls[1].arg.antibody.type = "pdb"
    /\ calls[1].arg.antibody.pdb_exists
    /\ calls[1].env = [tool |-> "ok", chains |-> 1]
    /\ calls[1].exc = Exc("Exception", "Structure validation failed")
    /\ pc = "failed"

(***************************************************************************)
(* Properties of the descriptor step (checked under SpecDescriptors)       *)
(***************************************************************************)

\* The requested temperatures whose required files are not all there.
IncompleteTemperatures(call) ==
    {t \in Range(call.arg.trajectory_files) :
        call.disk_before.trajectories[t] # TrajectoryFiles}

\* C17: when a required file of a requested temperature is missing,
\* compute_descriptors raises (ValueError when nothing else failed first),
\* returns nothing, leaves descriptors.csv and descriptors.pkl as they were,
\* and the run fails without entering inference.
C17_MissingTrajectoryFileIsFatal ==
    \A i \in 1..Len(calls) :
        (/\ calls[i].stage = "descriptors" /\ calls[i].fn = "executor"
         /\ IncompleteTemperatures(calls[i]) # {}) =>
            /\ ~calls[i].ok
            /\ calls[i].value = NoValue
            /\ calls[i].env.body = "ok" =>
                  /\ calls[i].exc.type = "ValueError"
                  /\ calls[i].exc.message \in {"Trajectory file not found",
                                               "Structure file not found",
                                               "TPR file not found"}
            /\ calls[i].disk_after.csv = calls[i].disk_before.csv
            /\ calls[i].disk_after.pkl = calls[i].disk_before.pkl
            /\ i = Len(calls)
            /\ pc = "failed"
            /\ result = NoValue
            /\ error = calls[i].exc

\* C17 witness: only md_final_400.xtc is missing and compute_descriptors
\* raised for it.
C17_Witness ==
    /\ Len(calls) = 1
    /\ calls[1].fn = "executor"
    /\ calls[1].env.body = "ok"
    /\ IncompleteTemperatures(calls[1]) = {"400"}
    /\ calls[1].exc = Exc("ValueError", "Trajectory file not found")
    /\ pc = "failed"

\* The columns of the table that are computed from one temperature's files.
FeaturesOfTemperature(t) ==
    CASE t = "350" -> {"gyr_cdrs_Rg_std_350", "bonds_contacts_std_350",
                       "rmsf_cdrl1_std_350"}
      [] t = "400" -> {"rmsf_cdrs_mu_400", "gyr_cdrs_Rg_std_400"}
      [] OTHER -> {}

\* C18 (as claimed): when a requested temperature lacks a complete
\* trajectory set and nothing else fails, compute_descriptors still returns
\* a table, one without the features of that temperature.
C18_IncompleteTemperatureSkipped ==
    \A i \in 1..Len(calls) :
        (/\ calls[i].stage = "descriptors" /\ calls[i].fn = "executor"
         /\ calls[i].env.body = "ok"
         /\ IncompleteTemperatures(calls[i]) # {}) =>
            /\ calls[i].ok
            /\ \A t \in IncompleteTemperatures(calls[i]) :
                  calls[i].value.descriptors_df.cols \cap FeaturesOfTemperature(t) = {}

\* C19 (as claimed): when descriptors.csv is there and cannot be parsed,
\* load_existing_descriptors raises and the run fails without entering
\* inference.
C19_MalformedTableIsFatal ==
    \A i \in 1..Len(calls) :
        (/\ calls[i].stage = "descriptors" /\ calls[i].fn = "loader"
         /\ calls[i].disk_before.csv = Garbage) =>
            /\ ~calls[i].ok
            /\ i = Len(calls)
            /\ pc = "failed"

(***************************************************************************)
(* Properties of the aggregation (checked under SpecAgg)                   *)
(***************************************************************************)

\* The temperatures that hold S2 values for block length b.
TempsWithS2(b) ==
    {t \in DOMAIN agg.args.master_s2_dicts[b] :
        Truthy(agg.args.master_s2_dicts[b][t])}

\* The lambda computation of block length b returned its two dictionaries,
\* neither of them empty.
LambdaReturned(b) ==
    /\ agg.get_lambda[b].tag = "ok"
    /\ Truthy(agg.get_lambda[b].lambda)
    /\ Truthy(agg.get_lambda[b].r)

\* C14: in the table an aggregation returns, a block length for which fewer
\* than two temperatures hold S2 values has none of its three lambda/r
\* columns (they are absent, whatever the value), and a block length with
\* two such temperatures or more whose lambda computation returned has all
\* three, whatever the other block lengths have.
C14_LambdaOmittedPerBlockLength ==
    agg.pc = "done" =>
        \A b \in Range(BlockLengths) :
            /\ Cardinality(TempsWithS2(b)) < 2 =>
                   Range(LambdaNames(b, agg.args.eq_time)) \cap agg.df.cols = {}
            /\ (Cardinality(TempsWithS2(b)) >= 2 /\ LambdaReturned(b)) =>
                   Range(LambdaNames(b, agg.args.eq_time)) \subseteq agg.df.cols

\* An aggregation has returned a table with the lambda/r columns of one
\* block length and without those of the other, which lacks S2 values.
C14_Witness ==
    /\ agg.pc = "done"
    /\ \E b, c \in Range(BlockLengths) :
        /\ Cardinality(TempsWithS2(b)) < 2
        /\ Range(LambdaNames(b, agg.args.eq_time)) \cap agg.df.cols = {}
        /\ Cardinality(TempsWithS2(c)) >= 2
        /\ Range(LambdaNames(c, agg.args.eq_time)) \subseteq agg.df.cols

\* C15: an aggregation run again over the same raw files, the same computed
\* inputs and the same equilibration time returns a table with the columns
\* and the values of the run before, in whatever order either run
\* enumerates the files.
C15_AggregationIdempotent ==
    (agg.pc = "done" /\ agg.n >= 2) => agg.df = agg.previous

\* The feature names one source of an aggregation writes: each raw file,
\* and each of the computed families.
Sources ==
    { [source |-> file.name,
       names |-> DOMAIN AggregateXvgFile(EmptyDict, file, agg.args.temps,
                                         agg.args.eq_time)] :
        file \in agg.args.files }
    \cup
    { [source |-> <<"order parameters">>,
       names |-> DOMAIN PutAll(EmptyDict,
                    OrderItems(agg.args.block_lengths, agg.args.master_s2_dicts,
                               agg.args.temps))],
      [source |-> <<"lambda">>,
       names |-> DOMAIN PutAll(EmptyDict,
                    LambdaItems(agg.args.block_lengths, agg.all_lambda_features,
                                agg.args.eq_time))],
      [source |-> <<"core/surface SASA">>,
       names |-> DOMAIN PutAll(EmptyDict,
                    SasaItems(agg.args.sasa_dict, agg.args.temps,
                              agg.args.core_surface_k, agg.args.eq_time))],
      [source |-> <<"entropy">>,
       names |-> DOMAIN PutAll(EmptyDict,
                    EntropyItems(agg.args.logs, agg.args.temps))] }

\* C16: in one aggregation no feature name is written from two sources, and
\* a bonds_lh file writes no bonds_hbonds or bonds_contacts name, whatever
\* its column count.
C16_NoNameFromTwoSources ==
    agg.pc = "done" =>
        /\ \A s, t \in Sources :
              s.source # t.source => s.names \cap t.names = {}
        /\ \A s \in Sources :
              (Contains("bonds", s.source) /\ Contains("lh", s.source)) =>
                  \A name \in s.names :
                      ~Contains("hbonds", name) /\ ~Contains("contacts", name)

(***************************************************************************)
(* Properties of the cleanup utility (checked under SpecCleanup)           *)
(***************************************************************************)

\* The files a returned cleanup removed from the directory it was called on.
Removed == cleanup.call.dir \ cleanup.dir

\* The files of a directory that some intermediate pattern matches, for the
\* temperatures given.
MatchesIntermediate(dir, temperatures) ==
    {f \in dir :
        \/ IsBackup(f)
        \/ \E i \in 1..Len(INTERMEDIATE_PATTERNS) :
             LET pattern == INTERMEDIATE_PATTERNS[i] IN
             IF HasPlaceholder(pattern, "{temp}")
             THEN \E j \in 1..Len(temperatures) :
                    GlobMatch(Format(pattern, "{temp}", temperatures[j]), f)
             ELSE GlobMatch(Format(pattern, "{temp}", ""), f)}

\* The files of a directory that the resume paths and their validation
\* need: the structure files, the final trajectory files of the
\* temperatures, the persisted tables, every .xvg file, the entropy logs
\* and the predictions of the antibody.
NeededFiles(dir, antibody_name, temperatures) ==
    {f \in dir :
        \/ f \in {antibody_name \o ".pdb", "processed.pdb", "processed.gro",
                  "index.ndx", "descriptors.csv", "descriptors.pkl",
                  antibody_name \o "_predictions.csv"}
        \/ \E j \in 1..Len(temperatures) :
             f \in {"md_final_" \o temperatures[j] \o ".xtc",
                    "md_final_" \o temperatures[j] \o ".gro",
                    "md_" \o temperatures[j] \o ".tpr",
                    "sconf_" \o temperatures[j] \o ".log"}
        \/ GlobMatch("*.xvg", f)}

\* C21: the files a cleanup removes all match an intermediate pattern, none
\* of them is a needed file, and a dry run removes nothing.
C21_CleanupRemovesOnlyIntermediates ==
    cleanup.pc = "returned" =>
        LET c == cleanup.call IN
        /\ Removed \subseteq MatchesIntermediate(c.dir, c.temperatures)
        /\ Removed \cap NeededFiles(c.dir, c.antibody_name, c.temperatures) = {}
        /\ c.dry_run => Removed = {}

\* C22: a cleanup that is not a dry run and is told not to keep the order
\* parameter files leaves no order_s2_*.csv or order_lambda_*.csv file
\* behind unless its removal failed; told to keep them, it removes none.
C22_OrderParamsDeletedOnRequest ==
    cleanup.pc = "returned" =>
        LET c == cleanup.call
            order == Glob(c.dir, "order_s2_*.csv") \cup Glob(c.dir, "order_lambda_*.csv")
        IN  /\ (~c.dry_run /\ ~c.keep_order_params /\ c.unlink = "ok") =>
                   order \cap cleanup.dir = {}
            /\ c.keep_order_params => order \subseteq cleanup.dir

(***************************************************************************)
(* Properties of the descriptor extractor                                  *)
(***************************************************************************)

\* The extraction is over: it returned xvg_files or raised.
ExtractOver == extract.pc \in {"returned", "raised"}

\* The invocations of every temperature of the extraction.
AllInvocations ==
    { <<extract.temps[i], k>> :
        i \in 1..Len(extract.temps), k \in 1..Len(Invocations("300")) }

\* The invocations of the whole structure that need no region: global SASA,
\* bonds, RMSD, global gyration and dipole.
GlobalInvocations ==
    { tk \in AllInvocations :
        LET inv == Invocations(tk[1])[tk[2]] IN
        /\ inv.region = ""
        /\ inv.metric \in {"sasa", "bonds", "rmsd", "gyr", "dipole"} }

\* C23: when one external invocation of the extractor fails (any metric, any
\* region, any temperature; the input files and the index file are there),
\* the extraction still returns, and every invocation of another metric,
\* region or temperature has been performed.
C23_SingleFailureIsolated ==
    ( /\ ExtractOver
      /\ extract.fails # << >>
      /\ extract.trajectories = CompleteTrajectories
      /\ extract.index_exists )
    => /\ extract.pc = "returned"
       /\ LET temp == extract.temps[extract.fails[1]]
              failed == Invocations(temp)[extract.fails[2]]
          IN  \A tk \in AllInvocations :
                 LET inv == Invocations(tk[1])[tk[2]] IN
                 ( tk[1] # temp \/ inv.metric # failed.metric
                                \/ inv.region # failed.region )
                 => tk \in extract.invoked

\* C24: when index.ndx is absent and cannot be made again (the input files
\* are there and no invocation fails of its own), the extraction still
\* returns, with the global invocations performed for every temperature.
C24_GlobalMetricsWithoutIndex ==
    ( /\ ExtractOver
      /\ extract.fails = << >>
      /\ extract.trajectories = CompleteTrajectories
      /\ ~extract.index_exists )
    => /\ extract.pc = "returned"
       /\ GlobalInvocations \subseteq extract.invoked


(***************************************************************************)
(* Properties of the reduction of the raw metric files                     *)
(***************************************************************************)

\* The files the loop over xvg_files has been through.
FilesSeen == IF agg.pc = "xvg" THEN agg.args.files \ agg.pending ELSE {}

\* The loop over xvg_files has been through this one file and no other.
OnlySeen(file) == FilesSeen = {file}

RECURSIVE Lines(_)
\* The data rows of a file, one by one.
Lines(series) ==
    IF Len(series) = 0 THEN << >>
    ELSE [j \in 1..Head(series).n |-> Head(series).row] \o Lines(Tail(series))

RECURSIVE SumOf(_, _, _)
\* The sum of column c of rows, or of its squares.
SumOf(rows, c, squared) ==
    IF Len(rows) = 0 THEN 0
    ELSE (IF squared THEN Head(rows)[c] * Head(rows)[c] ELSE Head(rows)[c])
         + SumOf(Tail(rows), c, squared)

\* The mean and the standard deviation of column c of rows.
MeanOfRows(rows, c) == Number(SumOf(rows, c, FALSE), Len(rows))

StdOfRows(rows, c) ==
    LET n == Len(rows)
        sum == SumOf(rows, c, FALSE)
    IN  SqrtOf(n * SumOf(rows, c, TRUE) - sum * sum, n * n)

\* Rows [k:N] of a time series of N rows; all the rows of an rmsf file.
RowsKept(file, k) ==
    LET rows == Lines(file.runs) IN
    IF Contains("rmsf", file.name) THEN rows
    ELSE SubSeq(rows, k + 1, Len(rows))

\* The start index of an equilibration time in ns, at 10 ps a frame.
StartIndex(eq_time) == eq_time * 100

\* C25: the mean and std features of a time-series file of N rows are the
\* mean and std of a column of its rows [k:N], k the start index of the
\* equilibration time; with N <= k the file gives no feature; an rmsf file
\* is never sliced, its features are the mean and std of all its rows.
C25_FeaturesOfEquilibratedRows ==
    \A file \in FilesSeen :
        ( /\ OnlySeen(file)
          /\ ~Contains("potential", file.name) )
        => LET kept == RowsKept(file, StartIndex(agg.args.eq_time))
               d == agg.descriptor_dict
           IN  IF Len(kept) = 0
               THEN d = EmptyDict
               ELSE \A name \in DOMAIN d :
                      \E c \in 1..(file.width - 1) :
                         \/ Contains("mu", name) /\ d[name] = MeanOfRows(kept, c)
                         \/ Contains("std", name) /\ d[name] = StdOfRows(kept, c)

\* A time series with rows before and after the start index has given its
\* features, a shorter one has given none, and an rmsf file shorter than
\* the start index has given its features.
C25_Witness ==
    /\ agg.pc = "xvg"
    /\ agg.args.eq_time = 1
    /\ agg.args.temps = <<"300", "350">>
    /\ \E file \in FilesSeen :
          /\ OnlySeen(file)
          /\ Contains("rmsf", file.name)
          /\ Rows(file.runs) < StartIndex(1)
          /\ agg.descriptor_dict # EmptyDict
    /\ \E file \in agg.pending :
          /\ Contains("rmsd", file.name)
          /\ Rows(file.runs) <= StartIndex(1)
          /\ AggregateXvgFile(EmptyDict, file, agg.args.temps, 1) = EmptyDict
    /\ \E file \in agg.pending :
          /\ Contains("bonds", file.name)
          /\ Rows(file.runs) > StartIndex(1)
          /\ AggregateXvgFile(EmptyDict, file, agg.args.temps, 1) # EmptyDict


\* The radial shell whose potential is the feature of a region.
ShellIndex(region) == IF region = "cdrs" THEN 5 ELSE 2

\* C26: a file potential_<region>_<T>.xvg of lines "radius potential" with
\* more radial shells than the shell index of its region (2 for a single
\* loop, 5 for cdrs) gives potential_<region>_mu_<T>, the potential of that
\* shell of the file whatever the equilibration time, and
\* potential_<region>_std_<T> = 0.
C26_PotentialAtShellIndex ==
    \A file \in FilesSeen :
        ( /\ OnlySeen(file)
          /\ Len(file.name) = 3
          /\ file.name[1] = "potential"
          /\ file.name[3] \in Range(agg.args.temps)
          /\ file.width = 2
          /\ Rows(file.runs) > ShellIndex(file.name[2]) )
        => LET mu == <<"potential", file.name[2], "mu", file.name[3]>>
               std == <<"potential", file.name[2], "std", file.name[3]>>
               d == agg.descriptor_dict
           IN  /\ {mu, std} \subseteq DOMAIN d
               /\ d[mu] = Number(Lines(file.runs)[ShellIndex(file.name[2]) + 1][1], 1)
               /\ d[std] = Number(0, 1)


\* C27: a file dipole_<T>.xvg of 3 or 4 value columns with rows left after
\* the equilibration slicing gives exactly the two features dipole_mu_<T>
\* and dipole_std_<T>, the mean and the standard deviation of one of its
\* columns; it never gives no feature and never gyration-style features.
C27_DipoleGivesItsTwoFeatures ==
    \A file \in FilesSeen :
        ( /\ OnlySeen(file)
          /\ Len(file.name) = 2
          /\ file.name[1] = "dipole"
          /\ file.name[2] \in Range(agg.args.temps)
          /\ file.width \in {4, 5}
          /\ Rows(file.runs) > StartIndex(agg.args.eq_time) )
        => LET mu == <<"dipole", "mu", file.name[2]>>
               std == <<"dipole", "std", file.name[2]>>
               kept == RowsKept(file, StartIndex(agg.args.eq_time))
               d == agg.descriptor_dict
           IN  /\ DOMAIN d = {mu, std}
               /\ \E c \in 1..(file.width - 1) :
                     /\ d[mu] = MeanOfRows(kept, c)
                     /\ d[std] = StdOfRows(kept, c)


(***************************************************************************)
(* Properties of _parse_xvg_file                                           *)
(***************************************************************************)

\* The data lines of the file being parsed, in their order.
DataLines == SelectSeq(parse.file, LAMBDA l : l.kind = "data")

\* The file is well formed with c columns: comments, blank lines and at
\* least one data line, every data line of c columns.
WellFormed(c) ==
    /\ \A j \in 1..Len(parse.file) :
          parse.file[j].kind \in {"comment", "blank", "data"}
    /\ Len(DataLines) >= 1
    /\ \A j \in 1..Len(DataLines) : Len(DataLines[j].cols) = c

\* C28: for a well-formed file whose data lines all have c columns, c in
\* 2..5, _parse_xvg_file returns an array (never None) with one row for
\* each data line, holding the c - 1 values after the first column, of one
\* dimension for c = 2; lines starting with '#' or '@' give no row wherever
\* they are.
C28_ParsingIsTotal ==
    \A c \in 2..5 :
        (parse.pc = "returned" /\ WellFormed(c))
        => /\ parse.data.tag = "array"
           /\ parse.data.ndim = (IF c = 2 THEN 1 ELSE 2)
           /\ Len(parse.data.rows) = Len(DataLines)
           /\ \A j \in 1..Len(DataLines) :
                 parse.data.rows[j] = Tail(DataLines[j].cols)

\* A file of five columns with a comment between two data lines has been
\* parsed into two rows.
C28_Witness ==
    /\ parse.pc = "returned"
    /\ WellFormed(5)
    /\ Len(parse.file) = 3
    /\ parse.file[2].kind = "comment"
    /\ parse.data.tag = "array"
    /\ Len(parse.data.rows) = 2


(***************************************************************************)
(* Properties of the core/surface SASA slopes                              *)
(***************************************************************************)

\* The temperatures of the run at which core/surface SASA statistics were
\* computed, as numbers.
TempsWithSasa ==
    { IntOf(t) : t \in Range(agg.args.temps) \cap DOMAIN agg.args.sasa_dict }

\* The statistic `key` at temperature T.
SasaStat(key, T) ==
    LET t == CHOOSE t \in DOMAIN agg.args.sasa_dict : IntOf(t) = T IN
    agg.args.sasa_dict[t][key]

\* all-temp-sasa_<stat>_k=<k>_eq=<eq>
SlopeName(key) ==
    <<"all-temp-sasa">> \o key
    \o <<"k=", ToString(agg.args.core_surface_k), "eq=", ToString(agg.args.eq_time)>>

Available(m) ==
    /\ predictions # NoCall
    /\ m \in DOMAIN predictions
    /\ predictions[m] # None

\* The run computes lambda features: compute_lambda is set and two
\* temperatures or more were simulated.
LambdaComputed == agg.args.compute_lambda /\ Len(agg.args.temps) >= 2

\* The configuration of the run reproduces the values written in the
\* feature names of the model.
Reproduces(m) ==
    CASE m = "tagg" -> /\ "400" \in Range(agg.args.temps)
                       /\ agg.args.eq_time = 20
                       /\ "25" \in Range(agg.args.block_lengths)
                       /\ LambdaComputed
      [] m = "tm"   -> "350" \in Range(agg.args.temps)
      [] m = "tmon" -> /\ "350" \in Range(agg.args.temps)
                       /\ agg.args.eq_time = 20
                       /\ agg.args.core_surface_k = 20
                       /\ "2.5" \in Range(agg.args.block_lengths)
                       /\ LambdaComputed

\* C30: after a descriptor stage run to its end under a configuration,
\* predict_all gives every model an entry, and a model has a prediction
\* only if the configuration reproduces the values written in its feature
\* names (tagg: temperature 400, equilibration_time 20, a block length that
\* prints as "25"; tm: temperature 350; tmon: temperature 350,
\* equilibration_time 20, core_surface_k 20, a block length that prints as
\* "2.5"; lambda computed for tagg and tmon); otherwise its entry is None.
\* A prediction is made from the columns of the required names only.
C30_PredictionOnlyUnderMatchingConfiguration ==
    (agg.pc = "done" /\ predictions # NoCall)
    => \A m \in ModelSet :
          /\ m \in DOMAIN predictions
          /\ ~Reproduces(m) => predictions[m] = None
          /\ Available(m) =>
                /\ Reproduces(m)
                /\ \A i \in 1..Len(ModelFeatures(m)) :
                      \E name \in agg.df.cols :
                         /\ JoinName(name) = ModelFeatures(m)[i]
                         /\ descriptors_df.row[ModelFeatures(m)[i]]
                              = AsScalar(agg.df.row[name])
                /\ predictions[m]
                     = ModelPredict(m, ExtractFeatures(descriptors_df, m))

\* Under temperatures 350 and 400, equilibration_time 20, block_length
\* [2.5, 25.0] and core_surface_k 20 with lambda computed, the descriptor
\* stage has ended and predict_all has returned: tm and tmon are predicted,
\* tagg, whose block length prints as "25.0", is not.
C30_Witness ==
    /\ agg.pc = "done"
    /\ agg.args.temps = <<"350", "400">>
    /\ agg.args.eq_time = 20
    /\ agg.args.core_surface_k = 20
    /\ agg.args.block_lengths = <<"2.5", "25.0">>
    /\ Available("tm")
    /\ Available("tmon")
    /\ predictions # NoCall
    /\ predictions["tagg"] = None


====
